---- MODULE Spec2Model ----
(***************************************************************************)
(* lldb-copilot: the agent session state machine, the command dispatcher   *)
(* (the `copilot` and `agent` commands), the settings store and the        *)
(* session-id map, as a state machine.                                     *)
(*                                                                         *)
(* Text is modelled as a sequence of tokens: the empty string is << >>,    *)
(* concatenation is \o.  A settings file is a JSON document, modelled as a *)
(* function from the keys it holds to their values, so that a field the    *)
(* writer omits is absent for the reader.                                  *)
(***************************************************************************)
EXTENDS Integers, Sequences, FiniteSets, TLC

(* ------------------------------------------------------------------ *)
(* Bounds of the model                                                 *)
(* ------------------------------------------------------------------ *)
\* commands (copilot / agent) issued in one run
MaxCmds == 3
\* tool calls and abort polls the agent makes within one query
MaxTools == 1

(* ------------------------------------------------------------------ *)
(* Program constants                                                   *)
(* ------------------------------------------------------------------ *)
DefaultTimeoutMs == 120000
MinTimeoutMs == 1000
IntMax == 2147483647

EmptyStr == << >>
EmptyMap == [x \in {} |-> x]

ProviderTypes == {"Copilot", "Claude"}

provider_type_name(p) == IF p = "Claude" THEN <<"claude">> ELSE <<"copilot">>

ProviderNames == {provider_type_name(p) : p \in ProviderTypes}

\* std::tolower on each character of a provider word
ToLowerTok(t) ==
    CASE t = "Claude" -> "claude"
      [] t = "COPILOT" -> "copilot"
      [] OTHER -> t

ToLower(s) == [i \in 1..Len(s) |-> ToLowerTok(s[i])]

\* [ok |-> FALSE] stands for the std::runtime_error thrown
ParseProviderType(name) ==
    LET lower == ToLower(name) IN
    IF lower = <<"claude">> \/ lower = <<"claude-code">>
    THEN [ok |-> TRUE, type |-> "Claude"]
    ELSE IF lower = <<"copilot">> \/ lower = <<"github-copilot">>
    THEN [ok |-> TRUE, type |-> "Copilot"]
    ELSE [ok |-> FALSE, type |-> "Copilot"]

(* ------------------------------------------------------------------ *)
(* Settings (settings.hpp)                                             *)
(* ------------------------------------------------------------------ *)
DefaultBYOK ==
    [enabled |-> FALSE, api_key |-> EmptyStr, base_url |-> EmptyStr,
     model |-> EmptyStr, provider_type |-> EmptyStr, timeout_ms |-> 0]

DefaultSettings ==
    [default_provider |-> "Copilot", custom_prompt |-> EmptyStr,
     response_timeout_ms |-> DefaultTimeoutMs, sessions |-> EmptyMap,
     byok |-> EmptyMap]

\* a record usable as soon as it is enabled
is_usable_EnabledOnly(b) == b.enabled

is_usable(b) == b.enabled /\ b.api_key # EmptyStr

to_config(b) ==
    [api_key |-> b.api_key, base_url |-> b.base_url, model |-> b.model,
     provider_type |-> b.provider_type, timeout_ms |-> b.timeout_ms]

\* Settings::get_byok() != nullptr
has_byok(s) == provider_type_name(s.default_provider) \in DOMAIN s.byok

get_byok(s) == s.byok[provider_type_name(s.default_provider)]

\* byok && byok->is_usable()
byok_usable(s) == has_byok(s) /\ is_usable(get_byok(s))

\* std::unordered_map::operator[] : m[k] = v, inserting k when absent
MapPut(m, k, v) == [x \in (DOMAIN m) \cup {k} |-> IF x = k THEN v ELSE m[x]]

MapErase(m, k) == [x \in (DOMAIN m) \ {k} |-> m[x]]

\* Settings::get_or_create_byok(): the settings with the record present
get_or_create_byok(s) ==
    IF has_byok(s) THEN s
    ELSE [s EXCEPT !.byok = MapPut(@, provider_type_name(s.default_provider), DefaultBYOK)]

\* the record replaced by a fresh one holding only the field set
SetByokField_FreshRecord(s, field, value) ==
    [s EXCEPT !.byok = MapPut(@, provider_type_name(s.default_provider),
                              [DefaultBYOK EXCEPT ![field] = value])]

\* the settings after `get_or_create_byok().field = value`
SetByokField(s, field, value) ==
    LET c == get_or_create_byok(s)
        pn == provider_type_name(s.default_provider) IN
    [c EXCEPT !.byok = MapPut(@, pn, [c.byok[pn] EXCEPT ![field] = value])]

(* ------------------------------------------------------------------ *)
(* The settings file (settings.cpp)                                    *)
(* ------------------------------------------------------------------ *)
\* one key of a JSON object, present only under cond
Opt(cond, k, v) == IF cond THEN k :> v ELSE EmptyMap

\* the model left out of the document
ByokToJson_NoModel(b) ==
    ("enabled" :> b.enabled)
    @@ Opt(b.api_key # EmptyStr, "api_key", b.api_key)
    @@ Opt(b.base_url # EmptyStr, "base_url", b.base_url)
    @@ Opt(b.provider_type # EmptyStr, "provider_type", b.provider_type)
    @@ Opt(b.timeout_ms > 0, "timeout_ms", b.timeout_ms)

\* lines 157-168: the JSON object written for a BYOK record
ByokToJson(b) ==
    ("enabled" :> b.enabled)
    @@ Opt(b.api_key # EmptyStr, "api_key", b.api_key)
    @@ Opt(b.base_url # EmptyStr, "base_url", b.base_url)
    @@ Opt(b.model # EmptyStr, "model", b.model)
    @@ Opt(b.provider_type # EmptyStr, "provider_type", b.provider_type)
    @@ Opt(b.timeout_ms > 0, "timeout_ms", b.timeout_ms)

\* the JSON document SaveSettings writes
SettingsToJson(s) ==
    ("default_provider" :> provider_type_name(s.default_provider))
    @@ Opt(s.custom_prompt # EmptyStr, "custom_prompt", s.custom_prompt)
    @@ Opt(s.response_timeout_ms > 0, "response_timeout_ms", s.response_timeout_ms)
    @@ Opt(DOMAIN s.sessions # {}, "sessions", s.sessions)
    @@ Opt(DOMAIN s.byok # {}, "byok",
           [p \in DOMAIN s.byok |-> ByokToJson(s.byok[p])])

JsonGet(j, k, dflt) == IF k \in DOMAIN j THEN j[k] ELSE dflt

ByokFromJson(j) ==
    [enabled |-> JsonGet(j, "enabled", FALSE),
     api_key |-> JsonGet(j, "api_key", EmptyStr),
     base_url |-> JsonGet(j, "base_url", EmptyStr),
     model |-> JsonGet(j, "model", EmptyStr),
     provider_type |-> JsonGet(j, "provider_type", EmptyStr),
     timeout_ms |-> JsonGet(j, "timeout_ms", 0)]

\* the Settings LoadSettings builds from a parsed document
SettingsFromJson(j) ==
    LET pp == ParseProviderType(JsonGet(j, "default_provider", EmptyStr)) IN
    [default_provider |->
        IF "default_provider" \in DOMAIN j /\ pp.ok THEN pp.type
        ELSE DefaultSettings.default_provider,
     custom_prompt |-> JsonGet(j, "custom_prompt", EmptyStr),
     response_timeout_ms |-> JsonGet(j, "response_timeout_ms", DefaultTimeoutMs),
     sessions |-> JsonGet(j, "sessions", EmptyMap),
     byok |-> LET bj == JsonGet(j, "byok", EmptyMap) IN
              [p \in DOMAIN bj |-> ByokFromJson(bj[p])]]

\* the keys LoadSettings reads, in the order it reads them
FieldOrder ==
    <<"default_provider", "custom_prompt", "response_timeout_ms", "sessions", "byok">>

\* the keys read before key
KeysBefore(key) ==
    {FieldOrder[i] : i \in {i \in 1..Len(FieldOrder) :
                              \A k \in 1..i : FieldOrder[k] # key}}

\* the file: absent, or holding a document; bad tells what is wrong with
\* the document: "none", "syntax" (it is not JSON), or the key whose value
\* has the wrong type
NoFile == [exists |-> FALSE, json |-> EmptyMap, bad |-> "none"]

\* SaveSettings(settings): the file afterwards
SaveSettings(s) == [exists |-> TRUE, json |-> SettingsToJson(s), bad |-> "none"]

\* lines 62-120: what is read from a file that exists; an exception ends
\* the reading and leaves the fields not read yet at their defaults
ReadSettings(file) ==
    IF file.bad = "none" THEN SettingsFromJson(file.json)
    ELSE IF file.bad = "syntax" THEN DefaultSettings
    ELSE SettingsFromJson([k \in DOMAIN file.json \cap KeysBefore(file.bad)
                              |-> file.json[k]])

\* a missing file read without being created
LoadSettings_NoCreate(file) ==
    IF file.exists
    THEN [settings |-> ReadSettings(file), file |-> file]
    ELSE [settings |-> DefaultSettings, file |-> file]

\* LoadSettings(): the settings returned, and the file afterwards
\* (a missing file is created with the defaults)
LoadSettings(file) ==
    IF file.exists
    THEN [settings |-> ReadSettings(file), file |-> file]
    ELSE [settings |-> DefaultSettings, file |-> SaveSettings(DefaultSettings)]

(* ------------------------------------------------------------------ *)
(* System prompt (system_prompt.hpp)                                   *)
(* ------------------------------------------------------------------ *)
kSystemPrompt == <<"SYS">>

GetFullSystemPrompt(custom_prompt) ==
    IF custom_prompt = EmptyStr THEN kSystemPrompt
    ELSE kSystemPrompt \o <<"\n\n">> \o custom_prompt

\* the separator between the system prompt and the first question
PromptSeparator == <<"\n\n---\n\n">>

(* ------------------------------------------------------------------ *)
(* State                                                               *)
(* ------------------------------------------------------------------ *)
VARIABLES
    file,      \* ~/.lldb_copilot/settings.json
    store,     \* g_session_store: [loaded, sessions]
    session,   \* the process-wide AgentSession
    agent,     \* the agent object session.agent owns (id 0: none)
    target,    \* the debugger's selected target (GetTargetName)
    pc,        \* "idle", or "query" while query_hosted is running
    ask,       \* the copilot command whose query is running: its locals
               \* (settings, target, question, created), the message sent
               \* (msg), and what it found: the session's target and id on
               \* entry (prev), whether it cleared the conversation, whether
               \* it follows an answered copilot command on the same target
               \* and what that one sent (follows), what the command
               \* before it did (after), whether the aborted flag was set
               \* since its EnsureAgent (raised), and the teardown pending
    tool,      \* the last tool call or abort poll of the running query, with
               \* what the debugger writes when the tool runs a command (out,
               \* err), the command under way (running) or done (ran)
    ncmd,      \* commands issued so far
    call,      \* the last call made directly on the session store or the
               \* settings functions: the operation, its arguments, what
               \* it returned
    last       \* the last command: its line, branch (note), result (ok,
               \* created, err), the agent live when it started (live), the
               \* agent it shut down (shut), the persisted id of the selected
               \* target when it started (had), whether the message it sent
               \* carried the system prompt (full), whether it printed a
               \* warning (warn), and the teardown pending

vars == <<file, store, session, agent, target, pc, ask, tool, ncmd, call, last>>

\* no agent: session.agent == nullptr
NullAgent ==
    [id |-> 0, provider |-> "Copilot", tool |-> FALSE,
     byok_set |-> FALSE, byok |-> to_config(DefaultBYOK),
     timeout |-> 0, sid |-> EmptyStr, initialized |-> FALSE]

\* the static AgentSession as constructed
InitSession ==
    [agent |-> 0, provider |-> "Copilot", provider_name |-> EmptyStr,
     target |-> EmptyStr, session_id |-> EmptyStr, system_prompt |-> EmptyStr,
     primed |-> FALSE, initialized |-> FALSE, host_ready |-> FALSE,
     aborted |-> FALSE, dbg |-> FALSE]

\* The operations below work on a world w: the session, its agent, the
\* session store and the settings file, with what the running command has
\* done to an agent so far: shut (the id of the agent it shut down, 0: none)
\* and cleared (it called clear_session on the live agent).
World == [session |-> session, agent |-> agent, store |-> store,
          file |-> file, shut |-> 0, cleared |-> FALSE]

(* ------------------------------------------------------------------ *)
(* Session store (session_store.cpp)                                   *)
(* ------------------------------------------------------------------ *)
\* the key made of the target alone
MakeKey_TargetOnly(target_name, provider) == target_name

\* SessionStore::MakeKey
MakeKey(target_name, provider) == target_name \o <<"|">> \o provider

\* SessionStore::Load on a store not loaded yet, given LoadSettings' result
StoreLoad(w, l) ==
    [w EXCEPT !.store = [loaded |-> TRUE, sessions |-> l.settings.sessions],
              !.file = l.file]

\* GetSessionStore(): the store is loaded from the settings on first use
GetSessionStore(w) ==
    IF w.store.loaded THEN w ELSE StoreLoad(w, LoadSettings(w.file))

\* SessionStore::GetSessionId on a loaded store
GetSessionId(st, target_name, provider) ==
    IF target_name = EmptyStr \/ provider = EmptyStr THEN EmptyStr
    ELSE IF MakeKey(target_name, provider) \in DOMAIN st.sessions
    THEN st.sessions[MakeKey(target_name, provider)]
    ELSE EmptyStr

\* the sessions saved over default settings, the file not read first
StoreSave_OverDefaults(w) ==
    [w EXCEPT !.file = SaveSettings([DefaultSettings
                                        EXCEPT !.sessions = w.store.sessions])]

\* SessionStore::Save(): load the settings, replace sessions, save back
StoreSave(w) ==
    [w EXCEPT !.file = SaveSettings([LoadSettings(w.file).settings
                                        EXCEPT !.sessions = w.store.sessions])]

\* the entry set whatever the names
StoreSet_NoGuard(w, target_name, provider, session_id) ==
    StoreSave([w EXCEPT !.store.sessions =
                  MapPut(@, MakeKey(target_name, provider), session_id)])

\* SessionStore::SetSessionId on the loaded store of w
StoreSet(w, target_name, provider, session_id) ==
    IF target_name = EmptyStr \/ provider = EmptyStr THEN w
    ELSE StoreSave([w EXCEPT !.store.sessions =
                        MapPut(@, MakeKey(target_name, provider), session_id)])

\* the entry erased in memory only
StoreClear_NoSave(w, target_name, provider) ==
    IF target_name = EmptyStr \/ provider = EmptyStr THEN w
    ELSE [w EXCEPT !.store.sessions = MapErase(@, MakeKey(target_name, provider))]

\* SessionStore::ClearSession on the loaded store of w
StoreClear(w, target_name, provider) ==
    IF target_name = EmptyStr \/ provider = EmptyStr THEN w
    ELSE StoreSave([w EXCEPT !.store.sessions =
                        MapErase(@, MakeKey(target_name, provider))])

\* GetSessionStore().SetSessionId(target, provider, id)
SetSessionId(w, target_name, provider, session_id) ==
    StoreSet(GetSessionStore(w), target_name, provider, session_id)

\* GetSessionStore().ClearSession(target, provider)
ClearSession(w, target_name, provider) ==
    StoreClear(GetSessionStore(w), target_name, provider)

(* ------------------------------------------------------------------ *)
(* Agent session (lldb_commands.cpp)                                   *)
(* ------------------------------------------------------------------ *)
\* the transient fields cleared, the agent left in the session
ResetAgentSession_KeepsAgent(w) ==
    [w EXCEPT
        !.session = [@ EXCEPT !.initialized = FALSE,
                              !.host_ready = FALSE, !.provider_name = EmptyStr,
                              !.session_id = EmptyStr, !.system_prompt = EmptyStr,
                              !.primed = FALSE, !.target = EmptyStr]]

\* ResetAgentSession(session), lines 43-57
ResetAgentSession(w) ==
    [w EXCEPT
        !.shut = IF w.session.agent # 0 THEN w.session.agent ELSE @,
        !.agent = IF w.session.agent # 0 THEN NullAgent ELSE @,
        !.session = [@ EXCEPT !.agent = 0, !.initialized = FALSE,
                              !.host_ready = FALSE, !.provider_name = EmptyStr,
                              !.session_id = EmptyStr, !.system_prompt = EmptyStr,
                              !.primed = FALSE, !.target = EmptyStr]]

\* the error stream appended without a newline
ExecuteCommand_NoNewline(out, err) ==
    LET output == (IF Len(out) > 0 THEN out ELSE EmptyStr)
                  \o (IF Len(err) > 0 THEN err ELSE EmptyStr) IN
    IF output = EmptyStr THEN <<"(No output)">> ELSE output

\* LldbClient::ExecuteCommand, given what the interpreter wrote to the
\* output and the error stream
ExecuteCommand(out, err) ==
    LET output == (IF Len(out) > 0 THEN out ELSE EmptyStr)
                  \o (IF Len(err) > 0
                      THEN (IF Len(out) > 0 THEN <<"\n">> ELSE EmptyStr) \o err
                      ELSE EmptyStr) IN
    IF output = EmptyStr THEN <<"(No output)">> ELSE output

\* the tool without the check of the aborted flag
ToolCallback_IgnoresAbort(s, out, err) ==
    IF ~s.dbg
    THEN [result |-> <<"Error: No debugger client available">>, ran |-> FALSE]
    ELSE [result |-> ExecuteCommand(out, err), ran |-> TRUE]

\* the dbg_exec tool of BuildDebuggerTool: the text returned, and whether
\* the debugger command was run
ToolCallback(s, out, err) ==
    IF s.aborted THEN [result |-> <<"(Aborted)">>, ran |-> FALSE]
    ELSE IF ~s.dbg
    THEN [result |-> <<"Error: No debugger client available">>, ran |-> FALSE]
    ELSE [result |-> ExecuteCommand(out, err), ran |-> TRUE]

\* LldbClient::IsInterrupted
IsInterrupted == FALSE

\* host.should_abort of ConfigureHost: the session afterwards; the value
\* returned is its aborted flag
ShouldAbort(s) ==
    IF s.dbg /\ IsInterrupted THEN [s EXCEPT !.aborted = TRUE] ELSE s

\* EnsureAgent, lines 134-166: the agent as configured before initialize().
\* sid is the persisted session id looked up (none when BYOK is usable);
\* env is what the agent library does in this call: createOk (create_agent
\* returns an agent), initOk (initialize succeeds), detail (get_last_error),
\* id (the identity of the object created).
NewAgent(settings, sid, env) ==
    [id |-> env.id, provider |-> settings.default_provider, tool |-> TRUE,
     byok_set |-> byok_usable(settings),
     byok |-> IF byok_usable(settings) THEN to_config(get_byok(settings))
              ELSE to_config(DefaultBYOK),
     timeout |-> IF settings.response_timeout_ms > 0
                 THEN settings.response_timeout_ms ELSE 0,
     sid |-> IF ~byok_usable(settings) /\ sid # EmptyStr THEN sid ELSE EmptyStr,
     initialized |-> env.initOk]

\* EnsureAgent, lines 134-166: the session before initialize()
NewSession(s, settings, sid, env) ==
    [s EXCEPT !.provider = settings.default_provider,
              !.provider_name = provider_type_name(settings.default_provider),
              !.agent = env.id,
              !.system_prompt = GetFullSystemPrompt(settings.custom_prompt),
              !.primed = FALSE,
              !.session_id = IF byok_usable(settings) THEN @ ELSE sid]

\* a failed initialize() leaving the agent in the session
InitializeAgent_KeepsFailed(built, env) ==
    IF ~env.initOk
    THEN [ok |-> FALSE, created |-> FALSE,
          error |-> <<"Failed to initialize ">>
                    \o provider_type_name(built.agent.provider) \o <<" provider">>,
          w |-> built]
    ELSE [ok |-> TRUE, created |-> TRUE, error |-> EmptyStr,
          w |-> [built EXCEPT !.session.host_ready = TRUE,
                              !.session.initialized = TRUE]]

\* EnsureAgent, lines 168-186: initialize() and what follows it
InitializeAgent(built, env) ==
    IF ~env.initOk
    THEN [ok |-> FALSE, created |-> FALSE,
          error |-> <<"Failed to initialize ">>
                    \o provider_type_name(built.agent.provider) \o <<" provider">>
                    \o (IF env.detail # EmptyStr THEN <<": ">> \o env.detail
                        ELSE EmptyStr),
          w |-> ResetAgentSession(built)]
    ELSE [ok |-> TRUE, created |-> TRUE, error |-> EmptyStr,
          w |-> [built EXCEPT !.session.host_ready = TRUE,
                              !.session.initialized = TRUE]]

\* EnsureAgent, lines 144-186, on the world ws in which the session store
\* has been consulted
ConfigureAgent(ws, settings, target_name, env) ==
    InitializeAgent(
        [ws EXCEPT
            !.session = NewSession(@, settings,
                GetSessionId(ws.store, target_name,
                             provider_type_name(settings.default_provider)), env),
            !.agent = NewAgent(settings,
                GetSessionId(ws.store, target_name,
                             provider_type_name(settings.default_provider)), env)],
        env)

\* EnsureAgent, lines 132-186: build the agent when the session has none
BuildAgent(w, settings, target_name, env) ==
    IF ~env.createOk
    THEN [ok |-> FALSE, created |-> FALSE, error |-> <<"Failed to create agent">>,
          w |-> [w EXCEPT !.session.provider = settings.default_provider,
                          !.session.provider_name =
                              provider_type_name(settings.default_provider)]]
    ELSE ConfigureAgent(IF byok_usable(settings) THEN w ELSE GetSessionStore(w),
                        settings, target_name, env)

\* EnsureAgent, lines 188-193: the prompt-refresh guard
PromptRefresh(s, settings) ==
    IF GetFullSystemPrompt(settings.custom_prompt) # s.system_prompt
    THEN [s EXCEPT !.system_prompt = GetFullSystemPrompt(settings.custom_prompt),
                   !.primed = FALSE]
    ELSE s

\* the conversation switched only when the new target has a session
SwitchSession_OnlyResumes(ws, new_session_id) ==
    IF new_session_id # EmptyStr /\ new_session_id # ws.session.session_id
       /\ ws.session.agent # 0
    THEN [ws EXCEPT !.cleared = TRUE,
                    !.agent.sid = new_session_id,
                    !.session.session_id = new_session_id]
    ELSE ws

\* EnsureAgent, lines 202-213: the session of the new target replaces the
\* one applied, on the world ws in which the session store has been consulted
SwitchSession(ws, new_session_id) ==
    IF new_session_id # ws.session.session_id /\ ws.session.agent # 0
    THEN [ws EXCEPT !.cleared = TRUE,
                    !.agent.sid = new_session_id,
                    !.session.session_id = new_session_id]
    ELSE ws

\* the session applied left as it is on a target change
ResumeTarget_Ignored(ws, target_name) == ws

\* EnsureAgent, lines 202-203: the persisted id of the new target looked up
ResumeTarget(ws, target_name) ==
    SwitchSession(ws, GetSessionId(ws.store, target_name, ws.session.provider_name))

\* the target's session looked up whether or not BYOK is usable
TargetGuard_AlwaysResumes(w, settings, target_name) ==
    IF w.session.target = target_name THEN w
    ELSE [ResumeTarget(GetSessionStore(w), target_name)
             EXCEPT !.session.target = target_name, !.session.primed = FALSE]

\* EnsureAgent, lines 195-216: the target-change guard
TargetGuard(w, settings, target_name) ==
    IF w.session.target = target_name THEN w
    ELSE [(IF byok_usable(settings)
           THEN w
           ELSE ResumeTarget(GetSessionStore(w), target_name))
             EXCEPT !.session.target = target_name, !.session.primed = FALSE]

\* EnsureAgent, lines 129-130: the provider-change guard
ProviderGuard(w, settings) ==
    IF w.session.agent # 0 /\ w.session.provider # settings.default_provider
    THEN ResetAgentSession(w) ELSE w

\* created reported whether or not an agent was built
BuildIfAbsent_ReportsCreated(w, settings, target_name, env) ==
    IF w.session.agent = 0 THEN BuildAgent(w, settings, target_name, env)
    ELSE [ok |-> TRUE, created |-> TRUE, error |-> EmptyStr, w |-> w]

\* EnsureAgent, lines 132-186
BuildIfAbsent(w, settings, target_name, env) ==
    IF w.session.agent = 0 THEN BuildAgent(w, settings, target_name, env)
    ELSE [ok |-> TRUE, created |-> FALSE, error |-> EmptyStr, w |-> w]

\* the aborted flag left as it is
AdjustAgent_KeepsAborted(w, settings, target_name) ==
    TargetGuard([w EXCEPT !.session = PromptRefresh(@, settings)],
                settings, target_name)

\* EnsureAgent, lines 188-219, after a build that succeeded or was not needed
AdjustAgent(w, settings, target_name) ==
    [TargetGuard([w EXCEPT !.session = PromptRefresh(@, settings)],
                 settings, target_name)
        EXCEPT !.session.aborted = FALSE]

\* the prompt, the target and the aborted flag left as they are
EnsureTail_SkipsAdjust(b, settings, target_name) == b

\* EnsureAgent, lines 188-219, reached only when no build failed
EnsureTail(b, settings, target_name) ==
    IF ~b.ok THEN b
    ELSE [b EXCEPT !.w = AdjustAgent(b.w, settings, target_name)]

\* EnsureAgent(session, dbg_client, settings, target, &error, &created)
EnsureAgent(w, settings, target_name, env) ==
    EnsureTail(
        BuildIfAbsent(ProviderGuard([w EXCEPT !.session.dbg = TRUE], settings),
                      settings, target_name, env),
        settings, target_name)

\* the message CopilotCommand::DoExecute passes to query_hosted
FullPrompt(s, question) ==
    IF s.primed \/ s.system_prompt = EmptyStr THEN question
    ELSE s.system_prompt \o PromptSeparator \o question

(* ------------------------------------------------------------------ *)
(* Command lines                                                       *)
(* ------------------------------------------------------------------ *)
\* A command line is the argv array the debugger passes: a sequence of
\* words, each a text.
RECURSIVE JoinArgs(_)
JoinArgs(command) ==
    IF command = << >> THEN EmptyStr
    ELSE IF Len(command) = 1 THEN command[1]
    ELSE command[1] \o <<" ">> \o JoinArgs(Tail(command))

\* std::string::find(' '): the index of the first space, 0 for npos
FindSpace(text) ==
    IF \E i \in 1..Len(text) : text[i] = " "
    THEN CHOOSE i \in 1..Len(text) :
            text[i] = " " /\ \A k \in 1..(i - 1) : text[k] # " "
    ELSE 0

\* subcmd / rest of AgentCommand::DoExecute, lines 320-330
SplitCommand(text) ==
    LET space == FindSpace(text) IN
    IF space # 0
    THEN [subcmd |-> SubSeq(text, 1, space - 1),
          rest |-> SubSeq(text, space + 1, Len(text))]
    ELSE [subcmd |-> text, rest |-> EmptyStr]

\* byok_value after find_first_not_of(" \t"): unchanged when nothing else
TrimLeading(text) ==
    IF \E i \in 1..Len(text) : text[i] \notin {" ", "\t"}
    THEN LET val_start == CHOOSE i \in 1..Len(text) :
                 text[i] \notin {" ", "\t"}
                 /\ \A k \in 1..(i - 1) : text[k] \in {" ", "\t"} IN
         SubSeq(text, val_start, Len(text))
    ELSE text

\* byok_subcmd / byok_value, lines 479-493
SplitByok(rest) ==
    LET sp == SplitCommand(rest) IN
    [subcmd |-> sp.subcmd,
     value |-> IF FindSpace(rest) # 0 THEN TrimLeading(sp.rest) ELSE EmptyStr]

DigitVal(c) ==
    CASE c = "0" -> 0 [] c = "1" -> 1 [] c = "2" -> 2 [] c = "3" -> 3
      [] c = "4" -> 4 [] c = "5" -> 5 [] c = "6" -> 6 [] c = "7" -> 7
      [] c = "8" -> 8 [] c = "9" -> 9 [] OTHER -> -1

\* the int denoted by the digits of text from position i on, continuing
\* acc, stopping at the first non-digit; ok is FALSE when the value leaves
\* the range of int (std::out_of_range)
RECURSIVE StoiDigits(_, _, _, _)
StoiDigits(text, i, acc, neg) ==
    IF i > Len(text) \/ DigitVal(text[i]) < 0 THEN [ok |-> TRUE, val |-> acc]
    ELSE LET d == DigitVal(text[i])
             room == IF neg /\ d > 0 THEN (IntMax - d + 1) \div 10
                     ELSE (IntMax - d) \div 10
             mag == IF neg THEN 0 - acc ELSE acc
         IN IF mag > room THEN [ok |-> FALSE, val |-> 0]
            ELSE StoiDigits(text, i + 1,
                            IF neg THEN acc * 10 - d ELSE acc * 10 + d, neg)

\* std::stoi: [ok |-> FALSE] stands for invalid_argument / out_of_range
Stoi(text) ==
    LET ws == {i \in 1..Len(text) : \A k \in 1..i : text[k] \in {" ", "\t"}}
        start == Cardinality(ws) + 1
        neg == start <= Len(text) /\ text[start] = "-"
        signed == start <= Len(text) /\ text[start] \in {"-", "+"}
        first == IF signed THEN start + 1 ELSE start
        hasDigit == first <= Len(text) /\ DigitVal(text[first]) >= 0
    IN
    IF ~hasDigit THEN [ok |-> FALSE, val |-> 0]
    ELSE StoiDigits(text, first, 0, neg)

(* ------------------------------------------------------------------ *)
(* Inputs                                                              *)
(* ------------------------------------------------------------------ *)
Targets == {EmptyStr, <<"A">>, <<"B">>}

\* the ids an agent reports for its conversation
SessionIds == {<<"s1">>, <<"s2">>}

\* argv of the copilot command
Questions == {<< >>, << <<"why">>, <<"crash">> >>}

\* argv of the agent command
AgentArgs ==
    { << >>, << <<"help">> >>, << <<"version">> >>, << <<"frobnicate">> >>,
      << <<"provider">> >>, << <<"provider">>, <<"Claude">> >>,
      << <<"provider">>, <<"copilot">> >>, << <<"provider">>, <<"gpt">> >>,
      << <<"clear">> >>,
      << <<"prompt">> >>, << <<"prompt">>, <<"clear">> >>,
      << <<"prompt">>, <<"be">>, <<"brief">> >>,
      << <<"timeout">> >>,
      << <<"timeout">>, <<"9", "9", "9">> >>,
      << <<"timeout">>, <<"1", "0", "0", "0">> >>,
      << <<"timeout">>, <<"a", "b", "c">> >>,
      << <<"timeout">>, <<"1", "0", "0", "0", "m", "s">> >>,
      << <<"timeout">>, <<"9", "9", "9", "9", "9", "9", "9", "9", "9", "9", "9">> >>,
      << <<"byok">> >>, << <<"byok">>, <<"enable">> >>,
      << <<"byok">>, <<"disable">> >>, << <<"byok">>, <<"key">> >>,
      << <<"byok">>, <<"key">>, <<"sk-1">> >>,
      << <<"byok">>, <<"endpoint">> >>, << <<"byok">>, <<"endpoint">>, <<"url">> >>,
      << <<"byok">>, <<"model">> >>, << <<"byok">>, <<"model">>, <<"m1">> >>,
      << <<"byok">>, <<"type">> >>, << <<"byok">>, <<"type">>, <<"openai">> >>,
      << <<"byok">>, <<"rotate">> >> }

\* what the agent library does when asked to build an agent
BuildOk == [createOk |-> TRUE, initOk |-> TRUE, detail |-> EmptyStr]

BuildEnvs ==
    { BuildOk,
      [createOk |-> FALSE, initOk |-> FALSE, detail |-> EmptyStr],
      [createOk |-> TRUE, initOk |-> FALSE, detail |-> EmptyStr],
      [createOk |-> TRUE, initOk |-> FALSE, detail |-> <<"no token">>] }

(* ------------------------------------------------------------------ *)
(* The agent command (AgentCommand::DoExecute)                         *)
(* ------------------------------------------------------------------ *)
\* Each subcommand maps the world after LoadSettings, the settings loaded
\* and the rest of the line to: whether DoExecute returns true, the branch
\* taken (note), the error text set, whether a warning was printed, and
\* the world afterwards.
Done(note, w) ==
    [ok |-> TRUE, note |-> note, err |-> EmptyStr, warn |-> FALSE, w |-> w]

Failed(note, err, w) ==
    [ok |-> FALSE, note |-> note, err |-> err, warn |-> FALSE, w |-> w]

\* the switch persisted without releasing the agent
SwitchProvider_KeepsAgent(w, settings, type) ==
    IF type # settings.default_provider
    THEN Done("provider-switched",
              [w EXCEPT !.file = SaveSettings(
                   [settings EXCEPT !.default_provider = type])])
    ELSE Done("provider-same", w)

\* lines 383-389, given the provider type parsed
SwitchProvider(w, settings, type) ==
    IF type # settings.default_provider
    THEN Done("provider-switched",
              ResetAgentSession(
                  [w EXCEPT !.file = SaveSettings(
                       [settings EXCEPT !.default_provider = type])]))
    ELSE Done("provider-same", w)

\* lines 371-397
DoProvider(w, settings, rest) ==
    IF rest = EmptyStr THEN Done("provider-show", w)
    ELSE IF ~ParseProviderType(rest).ok
    THEN Failed("provider-unknown", <<"Unknown provider: ">> \o rest, w)
    ELSE SwitchProvider(w, settings, ParseProviderType(rest).type)

\* the conversation cleared on the agent, the session's id left as it is
ClearLive_KeepsId(w) ==
    IF w.session.agent # 0
    THEN [w EXCEPT !.cleared = TRUE, !.agent.sid = EmptyStr]
    ELSE w

\* lines 402-406
ClearLive(w) ==
    IF w.session.agent # 0
    THEN [w EXCEPT !.cleared = TRUE, !.agent.sid = EmptyStr,
                   !.session.session_id = EmptyStr]
    ELSE w

\* the live conversation cleared, the persisted entry left in place
DoClear_LiveOnly(w, settings, target_name) ==
    Done("clear", ClearLive(w))

\* lines 398-409
DoClear(w, settings, target_name) ==
    Done("clear", ClearSession(ClearLive(w), target_name,
                               provider_type_name(settings.default_provider)))

\* the prompt stored on the session without asking for it to be resent
SetPrompt_KeepsPrimed(w, settings, custom) ==
    [w EXCEPT
        !.file = SaveSettings([settings EXCEPT !.custom_prompt = custom]),
        !.session.system_prompt =
            IF w.session.agent # 0 THEN GetFullSystemPrompt(custom) ELSE @]

\* the prompt stored on the session whether or not it holds an agent
SetPrompt_AlwaysStores(w, settings, custom) ==
    [w EXCEPT
        !.file = SaveSettings([settings EXCEPT !.custom_prompt = custom]),
        !.session.system_prompt = GetFullSystemPrompt(custom),
        !.session.primed = FALSE]

\* lines 421-428 and 433-440: the custom prompt becomes custom
SetPrompt(w, settings, custom) ==
    [w EXCEPT
        !.file = SaveSettings([settings EXCEPT !.custom_prompt = custom]),
        !.session.system_prompt =
            IF w.session.agent # 0 THEN GetFullSystemPrompt(custom) ELSE @,
        !.session.primed = IF w.session.agent # 0 THEN FALSE ELSE @]

\* lines 410-443
DoPrompt(w, settings, rest) ==
    IF rest = EmptyStr THEN Done("prompt-show", w)
    ELSE IF rest = <<"clear">> THEN Done("prompt-clear", SetPrompt(w, settings, EmptyStr))
    ELSE Done("prompt-set", SetPrompt(w, settings, rest))

\* the timeout persisted but not applied to the live agent
SetTimeout_SavesOnly(w, settings, ms) ==
    IF ms < MinTimeoutMs
    THEN Failed("timeout-low", <<"Timeout must be at least 1000 ms (1 second).">>, w)
    ELSE Done("timeout-set",
              [w EXCEPT
                  !.file = SaveSettings([settings EXCEPT !.response_timeout_ms = ms])])

\* lines 456-465, given the value std::stoi returned
SetTimeout(w, settings, ms) ==
    IF ms < MinTimeoutMs
    THEN Failed("timeout-low", <<"Timeout must be at least 1000 ms (1 second).">>, w)
    ELSE Done("timeout-set",
              [w EXCEPT
                  !.file = SaveSettings([settings EXCEPT !.response_timeout_ms = ms]),
                  !.agent.timeout = IF w.session.agent # 0 THEN ms ELSE @])

\* lines 444-473
DoTimeout(w, settings, rest) ==
    IF rest = EmptyStr THEN Done("timeout-show", w)
    ELSE IF ~Stoi(rest).ok
    THEN Failed("timeout-invalid", <<"Invalid timeout value. Use milliseconds.">>, w)
    ELSE SetTimeout(w, settings, Stoi(rest).val)

\* the BYOK field persisted without releasing the agent
ByokMutate_KeepsAgent(w, settings, field, value) ==
    [w EXCEPT !.file = SaveSettings(SetByokField(settings, field, value))]

\* the agent released only when BYOK is switched on or off
ByokMutate_ResetsOnToggle(w, settings, field, value) ==
    IF field = "enabled"
    THEN ResetAgentSession(
             [w EXCEPT !.file = SaveSettings(SetByokField(settings, field, value))])
    ELSE [w EXCEPT !.file = SaveSettings(SetByokField(settings, field, value))]

\* get_or_create_byok().field = value; SaveSettings; ResetAgentSession
ByokMutate(w, settings, field, value) ==
    ResetAgentSession([w EXCEPT !.file = SaveSettings(SetByokField(settings, field, value))])

\* the settings field a byok subcommand sets
ByokField(subcmd) ==
    CASE subcmd = <<"enable">> -> "enabled"
      [] subcmd = <<"disable">> -> "enabled"
      [] subcmd = <<"key">> -> "api_key"
      [] subcmd = <<"endpoint">> -> "base_url"
      [] subcmd = <<"model">> -> "model"
      [] subcmd = <<"type">> -> "provider_type"

ByokNote(subcmd) ==
    CASE subcmd = <<"enable">> -> "byok-enable"
      [] subcmd = <<"disable">> -> "byok-disable"
      [] subcmd = <<"key">> -> "byok-key"
      [] subcmd = <<"endpoint">> -> "byok-endpoint"
      [] subcmd = <<"model">> -> "byok-model"
      [] subcmd = <<"type">> -> "byok-type"

\* lines 525-529: byok enable warns when the record has no API key
EnableWarns(settings, subcmd) ==
    /\ subcmd = <<"enable">>
    /\ get_byok(get_or_create_byok(settings)).api_key = EmptyStr

\* lines 495-593, given byok_subcmd and byok_value
ByokDispatch(w, settings, subcmd, value) ==
    IF subcmd = EmptyStr THEN Done("byok-show", w)
    ELSE IF subcmd \notin {<<"enable">>, <<"disable">>, <<"key">>, <<"endpoint">>,
                           <<"model">>, <<"type">>}
    THEN Failed("byok-unknown",
                <<"Unknown byok subcommand: ">> \o subcmd
                    \o <<"\nUse 'agent byok' to see available commands.">>, w)
    ELSE IF subcmd = <<"key">> /\ value = EmptyStr
    THEN Failed("byok-key-missing",
                <<"Error: API key value required.\nUsage: agent byok key <value>">>, w)
    ELSE [Done(ByokNote(subcmd),
               ByokMutate(w, settings, ByokField(subcmd),
                          IF subcmd = <<"enable">> THEN TRUE
                          ELSE IF subcmd = <<"disable">> THEN FALSE
                          ELSE value))
            EXCEPT !.warn = EnableWarns(settings, subcmd)]

\* lines 474-594
DoByok(w, settings, rest) ==
    ByokDispatch(w, settings, SplitByok(rest).subcmd, SplitByok(rest).value)

\* lines 332-370 and 595-600: help, version, or an unknown subcommand
DoOther(w, subcmd) ==
    IF subcmd = EmptyStr \/ subcmd = <<"help">> THEN Done("help", w)
    ELSE IF subcmd = <<"version">> THEN Done("version", w)
    ELSE Failed("unknown", <<"Unknown subcommand: ">> \o subcmd
                               \o <<"\nUse 'agent help' for usage.">>, w)

\* the settings as LoadSettings reads them back from the file
Persisted == LoadSettings(file).settings

\* the persisted session id of (target_name, provider), empty when absent
PersistedId(settings, target_name, provider) ==
    IF MakeKey(target_name, provider) \in DOMAIN settings.sessions
    THEN settings.sessions[MakeKey(target_name, provider)]
    ELSE EmptyStr

\* the persisted id of the selected target under the default provider
CurrentId ==
    PersistedId(Persisted, target, provider_type_name(Persisted.default_provider))

ByokNotes == {"byok-enable", "byok-disable", "byok-key", "byok-endpoint",
              "byok-model", "byok-type"}

\* whether a teardown forced by the agent command is still to be followed
\* by a successful copilot command
TornAfter(note) ==
    IF note \in ByokNotes
    THEN (IF session.agent # 0 \/ last.torn \in {"provider", "byok"}
          THEN "byok" ELSE "byok-idle")
    ELSE IF note = "provider-switched" /\ session.agent # 0 THEN "provider"
    ELSE last.torn

Subcmd(command) == SplitCommand(JoinArgs(command)).subcmd

Rest(command) == SplitCommand(JoinArgs(command)).rest

\* the command lines of AgentArgs by the subcommand they name
ArgsOf(subcmds) == {command \in AgentArgs : Subcmd(command) \in subcmds}

InfoArgs == ArgsOf({EmptyStr, <<"help">>, <<"version">>})
ProviderArgs == ArgsOf({<<"provider">>})
ClearArgs == ArgsOf({<<"clear">>})
PromptArgs == ArgsOf({<<"prompt">>})
TimeoutArgs == ArgsOf({<<"timeout">>})
ByokArgs == ArgsOf({<<"byok">>})
UnknownArgs ==
    AgentArgs \ (InfoArgs \cup ProviderArgs \cup ClearArgs \cup PromptArgs
                 \cup TimeoutArgs \cup ByokArgs)

\* lines 314-317: the world after LoadSettings, and the settings loaded
Loaded == [World EXCEPT !.file = LoadSettings(file).file]

LoadedSettings == LoadSettings(file).settings

\* what one agent command does, r being what its branch did
ControlRuns(command, r) ==
    /\ ncmd < MaxCmds
    /\ session' = r.w.session
    /\ agent' = r.w.agent
    /\ store' = r.w.store
    /\ file' = r.w.file
    /\ last' = [cmd |-> "agent", line |-> command, note |-> r.note, ok |-> r.ok,
                created |-> FALSE, err |-> r.err, shut |-> r.w.shut,
                cleared |-> r.w.cleared, live |-> session.agent, had |-> CurrentId,
                full |-> FALSE, warn |-> r.warn, torn |-> TornAfter(r.note)]
    /\ ncmd' = ncmd + 1
    /\ UNCHANGED <<call, target, pc, ask, tool>>

\* one agent command run to completion between two other commands
Control(command, r) == pc = "idle" /\ ControlRuns(command, r)

AgentInfo ==
    \E command \in InfoArgs : Control(command, DoOther(Loaded, Subcmd(command)))

AgentProvider ==
    \E command \in ProviderArgs :
        Control(command, DoProvider(Loaded, LoadedSettings, Rest(command)))

AgentClear ==
    \E command \in ClearArgs : Control(command, DoClear(Loaded, LoadedSettings, target))

AgentPrompt ==
    \E command \in PromptArgs :
        Control(command, DoPrompt(Loaded, LoadedSettings, Rest(command)))

AgentTimeout ==
    \E command \in TimeoutArgs :
        Control(command, DoTimeout(Loaded, LoadedSettings, Rest(command)))

AgentByok ==
    \E command \in ByokArgs :
        Control(command, DoByok(Loaded, LoadedSettings, Rest(command)))

AgentUnknown ==
    \E command \in UnknownArgs : Control(command, DoOther(Loaded, Subcmd(command)))

(* ------------------------------------------------------------------ *)
(* The copilot command (CopilotCommand::DoExecute)                     *)
(* ------------------------------------------------------------------ *)
NoAsk ==
    [settings |-> DefaultSettings, target |-> EmptyStr, question |-> EmptyStr,
     created |-> FALSE, msg |-> EmptyStr, cleared |-> FALSE, torn |-> "no",
     prev |-> [target |-> EmptyStr, sid |-> EmptyStr, aborted |-> FALSE],
     follows |-> "no", after |-> "none", raised |-> FALSE]

NoTool ==
    [n |-> 0, result |-> EmptyStr, ran |-> FALSE, poll |-> "none",
     out |-> EmptyStr, err |-> EmptyStr, running |-> FALSE]

UsageError ==
    <<"Usage: copilot <question>\n\nExamples:\n  copilot what is the call stack?\n  copilot explain this crash\n\nFor Copilot settings, use: agent help">>

\* the settings loaded before the question is looked at
CopilotUsage_Loads ==
    /\ last' = [cmd |-> "copilot", line |-> << >>, note |-> "usage", ok |-> FALSE,
                created |-> FALSE, err |-> UsageError, shut |-> 0,
                cleared |-> FALSE, live |-> session.agent, had |-> EmptyStr,
                full |-> FALSE, warn |-> FALSE, torn |-> last.torn]
    /\ file' = LoadSettings(file).file
    /\ UNCHANGED <<call, store, session, agent, target, pc, ask, tool>>

\* lines 244-250: an empty question is a usage error
CopilotUsage ==
    /\ last' = [cmd |-> "copilot", line |-> << >>, note |-> "usage", ok |-> FALSE,
                created |-> FALSE, err |-> UsageError, shut |-> 0,
                cleared |-> FALSE, live |-> session.agent, had |-> EmptyStr,
                full |-> FALSE, warn |-> FALSE, torn |-> last.torn]
    /\ UNCHANGED <<call, file, store, session, agent, target, pc, ask, tool>>

\* lines 259-278: e is what EnsureAgent returned for the settings loaded;
\* when it failed the command ends, otherwise the message is composed and
\* the query starts
CopilotEnsured(e, settings, command) ==
    /\ session' = e.w.session
    /\ agent' = e.w.agent
    /\ store' = e.w.store
    /\ file' = e.w.file
    /\ IF ~e.ok
       THEN /\ last' = [cmd |-> "copilot", line |-> command, note |-> "ensure-failed",
                        ok |-> FALSE, created |-> FALSE,
                        err |-> IF e.error = EmptyStr
                                THEN <<"Failed to initialize">> ELSE e.error,
                        shut |-> e.w.shut, cleared |-> e.w.cleared,
                        live |-> session.agent, had |-> CurrentId,
                        full |-> FALSE, warn |-> FALSE, torn |-> last.torn]
            /\ UNCHANGED <<call, target, pc, ask, tool>>
       ELSE /\ pc' = "query"
            /\ ask' = [settings |-> settings, target |-> target,
                       question |-> JoinArgs(command), created |-> e.created,
                       msg |-> FullPrompt(e.w.session, JoinArgs(command)),
                       cleared |-> e.w.cleared, torn |-> last.torn,
                       prev |-> [target |-> session.target,
                                 sid |-> session.session_id,
                                 aborted |-> session.aborted],
                       follows |-> IF /\ last.cmd = "copilot"
                                      /\ last.note = "answered"
                                      /\ session.target = target
                                   THEN (IF last.full THEN "full" ELSE "raw")
                                   ELSE "no",
                       after |-> last.note, raised |-> FALSE]
            /\ tool' = NoTool
            /\ last' = [cmd |-> "copilot", line |-> command, note |-> "querying",
                        ok |-> TRUE, created |-> e.created, err |-> EmptyStr,
                        shut |-> e.w.shut, cleared |-> e.w.cleared,
                        live |-> session.agent, had |-> CurrentId,
                        full |-> FullPrompt(e.w.session, JoinArgs(command))
                                     # JoinArgs(command),
                        warn |-> FALSE, torn |-> "no"]
            /\ UNCHANGED <<call, target>>

\* the agent library is asked for an agent only when one is built
Builds == session.agent = 0 \/ session.provider # LoadedSettings.default_provider

\* lines 240-278: the copilot command up to the call of query_hosted
CopilotCommand ==
    \E command \in Questions :
      /\ pc = "idle"
      /\ ncmd < MaxCmds
      /\ ncmd' = ncmd + 1
      /\ IF JoinArgs(command) = EmptyStr
         THEN CopilotUsage
         ELSE \E env \in IF Builds THEN BuildEnvs ELSE {BuildOk} :
                CopilotEnsured(
                    EnsureAgent(Loaded, LoadedSettings, target,
                                [createOk |-> env.createOk, initOk |-> env.initOk,
                                 detail |-> env.detail, id |-> ncmd + 1]),
                    LoadedSettings, command)

\* what the debugger wrote for a command: (output stream, error stream)
ShimOutputs ==
    {EmptyStr, <<"frame #0">>, <<"frame #0", "\n">>} \X {EmptyStr, <<"error: invalid">>}

\* the agent calls the dbg_exec tool while the query runs; r is what the
\* callback comes to. When it runs the debugger command the command is
\* under way (running) until ToolReturn; otherwise it has returned.
ToolCalled(r, out, err) ==
    /\ tool' = [n |-> tool.n + 1, poll |-> "none", ran |-> FALSE,
                running |-> r.ran,
                result |-> IF r.ran THEN EmptyStr ELSE r.result,
                out |-> IF r.ran THEN out ELSE EmptyStr,
                err |-> IF r.ran THEN err ELSE EmptyStr]
    /\ UNCHANGED <<call, file, store, session, agent, target, pc, ask, ncmd, last>>

ToolCall ==
    \E io \in ShimOutputs :
      /\ pc = "query"
      /\ ~tool.running
      /\ tool.n < MaxTools
      /\ ToolCalled(ToolCallback(session, io[1], io[2]), io[1], io[2])

\* the debugger command ends and the callback returns its text (line 73)
ToolReturn ==
    /\ pc = "query"
    /\ tool.running
    /\ tool' = [tool EXCEPT !.running = FALSE, !.ran = TRUE,
                            !.result = ExecuteCommand(tool.out, tool.err)]
    /\ UNCHANGED <<call, file, store, session, agent, target, pc, ask, ncmd, last>>

\* the agent polls host.should_abort while the query runs
AbortPoll ==
    /\ pc = "query"
    /\ ~tool.running
    /\ tool.n < MaxTools
    /\ session' = ShouldAbort(session)
    /\ tool' = [n |-> tool.n + 1, result |-> EmptyStr, ran |-> FALSE,
                poll |-> IF session'.aborted THEN "yes" ELSE "no",
                out |-> EmptyStr, err |-> EmptyStr, running |-> FALSE]
    /\ ask' = [ask EXCEPT !.raised = @ \/ (session'.aborted /\ ~session.aborted)]
    /\ UNCHANGED <<call, file, store, agent, target, pc, ncmd, last>>

\* the id persisted only while the session has none
PersistSession_FirstOnly(w, settings, target_name, new_session_id) ==
    IF ~byok_usable(settings) /\ new_session_id # EmptyStr
       /\ w.session.session_id = EmptyStr
    THEN [SetSessionId(w, target_name, provider_type_name(settings.default_provider),
                       new_session_id)
            EXCEPT !.session.session_id = new_session_id]
    ELSE w

\* lines 283-293: the session id the agent reports is persisted
PersistSession(w, settings, target_name, new_session_id) ==
    IF ~byok_usable(settings) /\ new_session_id # EmptyStr
       /\ new_session_id # w.session.session_id
    THEN [SetSessionId(w, target_name, provider_type_name(settings.default_provider),
                       new_session_id)
            EXCEPT !.session.session_id = new_session_id]
    ELSE w

\* the session not marked primed after the query
AfterQuery_NotPrimed(w, settings, target_name, new_session_id) ==
    PersistSession([w EXCEPT !.agent.sid = new_session_id],
                   settings, target_name, new_session_id)

\* the aborted flag cleared when the query returns
AfterQuery_ClearsAborted(w, settings, target_name, new_session_id) ==
    PersistSession([w EXCEPT !.session.primed = TRUE, !.agent.sid = new_session_id,
                             !.session.aborted = FALSE],
                   settings, target_name, new_session_id)

\* lines 278-293: what follows a query that returned, given the session id
\* the agent reports (get_session_id)
AfterQuery(w, settings, target_name, new_session_id) ==
    PersistSession([w EXCEPT !.session.primed = TRUE, !.agent.sid = new_session_id],
                   settings, target_name, new_session_id)

QueryReturned(w) ==
    /\ session' = w.session
    /\ agent' = w.agent
    /\ store' = w.store
    /\ file' = w.file
    /\ pc' = "idle"
    /\ ask' = NoAsk
    /\ tool' = NoTool
    /\ last' = [last EXCEPT !.note = "answered"]
    /\ UNCHANGED <<call, target, ncmd>>

\* query_hosted returns: with an answer or with the aborted marker, and
\* with the agent holding some session id (possibly none)
QueryReturn ==
    \E response \in {<<"answer">>, <<"(Aborted)">>},
       new_session_id \in SessionIds \cup {EmptyStr} :
      /\ pc = "query"
      /\ QueryReturned(AfterQuery(World, ask.settings, ask.target, new_session_id))

\* the session marked primed before query_hosted is called
QueryThrow_Primes ==
    /\ pc = "query"
    /\ pc' = "idle"
    /\ ask' = NoAsk
    /\ tool' = NoTool
    /\ session' = [session EXCEPT !.primed = TRUE]
    /\ last' = [last EXCEPT !.note = "exception", !.ok = FALSE,
                            !.err = <<"exception">>]
    /\ UNCHANGED <<call, file, store, agent, target, ncmd>>

\* query_hosted throws: lines 297-301
QueryThrow ==
    /\ pc = "query"
    /\ pc' = "idle"
    /\ ask' = NoAsk
    /\ tool' = NoTool
    /\ last' = [last EXCEPT !.note = "exception", !.ok = FALSE,
                            !.err = <<"exception">>]
    /\ UNCHANGED <<call, file, store, session, agent, target, ncmd>>

\* the user selects another target in the debugger
SelectTarget ==
    \E t \in Targets :
      /\ pc = "idle"
      /\ ncmd < MaxCmds
      /\ t # target
      /\ target' = t
      /\ UNCHANGED <<call, file, store, session, agent, pc, ask, tool, ncmd, last>>

\* an asynchronous interrupt arrives while a query runs: the aborted flag
\* is the field an interrupt source sets
Interrupt ==
    /\ pc = "query"
    /\ ~session.aborted
    /\ session' = [session EXCEPT !.aborted = TRUE]
    /\ ask' = [ask EXCEPT !.raised = TRUE]
    /\ UNCHANGED <<call, file, store, agent, target, pc, tool, ncmd, last>>

(* ------------------------------------------------------------------ *)
(* Specifications                                                      *)
(* ------------------------------------------------------------------ *)
NoLast ==
    [cmd |-> "none", line |-> << >>, note |-> "none", ok |-> TRUE,
     created |-> FALSE, err |-> EmptyStr, shut |-> 0, cleared |-> FALSE,
     live |-> 0, had |-> EmptyStr, full |-> FALSE, warn |-> FALSE,
     torn |-> "no"]

NoCall == [op |-> "none", args |-> << >>, result |-> EmptyStr]

\* the settings file at the start: none yet, or one an earlier run left
InitFiles == {NoFile, SaveSettings(DefaultSettings)}

Init ==
    /\ file \in InitFiles
    /\ store = [loaded |-> FALSE, sessions |-> EmptyMap]
    /\ session = InitSession
    /\ agent = NullAgent
    /\ target = EmptyStr
    /\ pc = "idle"
    /\ ask = NoAsk
    /\ tool = NoTool
    /\ ncmd = 0
    /\ call = NoCall
    /\ last = NoLast

\* The commands, each run to completion, a query being one call that
\* returns or throws.
Next ==
    \/ CopilotCommand
    \/ QueryReturn
    \/ QueryThrow
    \/ AgentInfo
    \/ AgentProvider
    \/ AgentClear
    \/ AgentPrompt
    \/ AgentTimeout
    \/ AgentByok
    \/ AgentUnknown
    \/ SelectTarget

Spec == Init /\ [][Next]_vars

\* The same commands in a run that finds the settings file of an earlier
\* run: a session persisted for target A and a usable BYOK record for the
\* default provider.
ResumedFiles ==
    { SaveSettings([DefaultSettings EXCEPT
          !.sessions = MakeKey(<<"A">>, <<"copilot">>) :> <<"s1">>,
          !.byok = <<"copilot">> :> [DefaultBYOK EXCEPT !.enabled = TRUE,
                                                        !.api_key = <<"sk-1">>]]) }

InitResumed ==
    /\ file \in ResumedFiles
    /\ store = [loaded |-> FALSE, sessions |-> EmptyMap]
    /\ session = InitSession
    /\ agent = NullAgent
    /\ target = EmptyStr
    /\ pc = "idle"
    /\ ask = NoAsk
    /\ tool = NoTool
    /\ ncmd = 0
    /\ call = NoCall
    /\ last = NoLast

SpecResumed == InitResumed /\ [][Next]_vars

\* The same commands in a run that finds the settings file of an earlier
\* run in which a question on target A under provider copilot persisted
\* s1 and the provider was then switched to claude.
SwitchedFiles ==
    { SaveSettings([DefaultSettings EXCEPT
          !.default_provider = "Claude",
          !.sessions = MakeKey(<<"A">>, <<"copilot">>) :> <<"s1">>]) }

InitSwitched ==
    /\ file \in SwitchedFiles
    /\ store = [loaded |-> FALSE, sessions |-> EmptyMap]
    /\ session = InitSession
    /\ agent = NullAgent
    /\ target = EmptyStr
    /\ pc = "idle"
    /\ ask = NoAsk
    /\ tool = NoTool
    /\ ncmd = 0
    /\ call = NoCall
    /\ last = NoLast

SpecSwitched == InitSwitched /\ [][Next]_vars

\* The copilot command with what goes on inside a query: the agent calls
\* the tool and polls for an abort, and an interrupt may arrive.
NextQuery ==
    \/ CopilotCommand
    \/ ToolCall
    \/ ToolReturn
    \/ AbortPoll
    \/ Interrupt
    \/ (~tool.running /\ QueryReturn)
    \/ (~tool.running /\ QueryThrow)
    \/ SelectTarget

SpecQuery == Init /\ [][NextQuery]_vars

(* ------------------------------------------------------------------ *)
(* A host that dispatches commands concurrently                        *)
(* ------------------------------------------------------------------ *)
\* lines 243-268: the copilot command up to the return of EnsureAgent; when
\* EnsureAgent succeeded the command stands before line 270 (pc "ensured")
CopilotBegin ==
    \E command \in Questions \ {<< >>} :
    \E env \in IF Builds THEN BuildEnvs ELSE {BuildOk} :
      LET e == EnsureAgent(Loaded, LoadedSettings, target,
                           [createOk |-> env.createOk, initOk |-> env.initOk,
                            detail |-> env.detail, id |-> ncmd + 1]) IN
      /\ pc = "idle"
      /\ ncmd < MaxCmds
      /\ ncmd' = ncmd + 1
      /\ IF ~e.ok
         THEN CopilotEnsured(e, LoadedSettings, command)
         ELSE /\ session' = e.w.session
              /\ agent' = e.w.agent
              /\ store' = e.w.store
              /\ file' = e.w.file
              /\ pc' = "ensured"
              /\ ask' = [NoAsk EXCEPT !.settings = LoadedSettings, !.target = target,
                                      !.question = JoinArgs(command),
                                      !.created = e.created,
                                      !.cleared = e.w.cleared]
              /\ tool' = NoTool
              /\ last' = [NoLast EXCEPT !.cmd = "copilot", !.line = command,
                                        !.note = "ensured", !.created = e.created,
                                        !.shut = e.w.shut, !.cleared = e.w.cleared,
                                        !.live = session.agent]
              /\ UNCHANGED <<call, target>>

\* lines 270-277: the message is composed from the session as it is now and
\* query_hosted is called on session.agent
CopilotIssue ==
    /\ pc = "ensured"
    /\ pc' = "query"
    /\ ask' = [ask EXCEPT !.msg = FullPrompt(session, ask.question)]
    /\ last' = [NoLast EXCEPT !.cmd = "copilot", !.note = "querying",
                              !.created = ask.created, !.live = session.agent,
                              !.full = FullPrompt(session, ask.question) # ask.question]
    /\ UNCHANGED <<call, file, store, session, agent, target, tool, ncmd>>

\* an agent command that can tear the session down, dispatched on another
\* thread while the copilot command stands between EnsureAgent and its query
AgentBetween ==
    /\ pc = "ensured"
    /\ \/ \E command \in ProviderArgs :
            ControlRuns(command, DoProvider(Loaded, LoadedSettings, Rest(command)))
       \/ \E command \in ByokArgs :
            ControlRuns(command, DoByok(Loaded, LoadedSettings, Rest(command)))

\* session.agent->query_hosted with session.agent null is undefined: the
\* process dies
Crash ==
    /\ pc = "query"
    /\ session.agent = 0
    /\ pc' = "crashed"
    /\ UNCHANGED <<call, file, store, session, agent, target, ask, tool, ncmd, last>>

\* No lock covers EnsureAgent and the query (GetAgentSession hands out the
\* one static session): with commands dispatched concurrently an agent
\* command can run between the two. A query on a live agent returns or
\* throws; a query on the null pointer crashes or unwinds.
NextInterleaved ==
    \/ CopilotBegin
    \/ CopilotIssue
    \/ AgentBetween
    \/ (session.agent # 0 /\ QueryReturn)
    \/ QueryThrow
    \/ Crash
    \/ SelectTarget

SpecInterleaved == Init /\ [][NextInterleaved]_vars

(* ------------------------------------------------------------------ *)
(* The session store called directly                                   *)
(* ------------------------------------------------------------------ *)
\* the names and ids a caller passes
StoreProviders == ProviderNames \cup {EmptyStr}

StoreIds == SessionIds \cup {EmptyStr}

\* the settings files the store is loaded from
StoreFiles ==
    { SaveSettings(DefaultSettings),
      SaveSettings([DefaultSettings EXCEPT
          !.sessions = MakeKey(<<"A">>, <<"copilot">>) :> <<"s1">>]) }

\* the store has been obtained once (GetSessionStore), so it is loaded
InitStore ==
    /\ file \in StoreFiles
    /\ store = [loaded |-> TRUE, sessions |-> LoadSettings(file).settings.sessions]
    /\ session = InitSession
    /\ agent = NullAgent
    /\ target = EmptyStr
    /\ pc = "idle"
    /\ ask = NoAsk
    /\ tool = NoTool
    /\ ncmd = 0
    /\ call = NoCall
    /\ last = NoLast

\* a call returned result and left the world w
StoreCalled(op, args, result, w) ==
    /\ store' = w.store
    /\ file' = w.file
    /\ call' = [op |-> op, args |-> args, result |-> result]
    /\ UNCHANGED <<session, agent, target, pc, ask, tool, ncmd, last>>

GetSessionIdCall ==
    \E t \in Targets, p \in StoreProviders :
        StoreCalled("GetSessionId", <<t, p>>, GetSessionId(store, t, p), World)

SetSessionIdCall ==
    \E t \in Targets, p \in StoreProviders, id \in StoreIds :
        StoreCalled("SetSessionId", <<t, p, id>>, EmptyStr, StoreSet(World, t, p, id))

ClearSessionCall ==
    \E t \in Targets, p \in StoreProviders :
        StoreCalled("ClearSession", <<t, p>>, EmptyStr, StoreClear(World, t, p))

NextStore ==
    \/ GetSessionIdCall
    \/ SetSessionIdCall
    \/ ClearSessionCall

SpecStore == InitStore /\ [][NextStore]_vars

(* ------------------------------------------------------------------ *)
(* The settings functions called directly                              *)
(* ------------------------------------------------------------------ *)
\* BYOK maps to save
ByokMaps ==
    { EmptyMap,
      <<"copilot">> :> DefaultBYOK,
      <<"copilot">> :> [enabled |-> TRUE, api_key |-> <<"sk-1">>,
                        base_url |-> <<"url">>, model |-> <<"m1">>,
                        provider_type |-> <<"openai">>, timeout_ms |-> 5000],
      (<<"copilot">> :> [DefaultBYOK EXCEPT !.api_key = <<"sk-1">>])
          @@ (<<"claude">> :> [DefaultBYOK EXCEPT !.enabled = TRUE]) }

\* sessions maps to save
SessionMaps ==
    { EmptyMap,
      (MakeKey(<<"A">>, <<"copilot">>) :> <<"s1">>)
          @@ (MakeKey(<<"B">>, <<"claude">>) :> <<"s2">>) }

\* settings records to save; a response timeout of 0 is one the struct can
\* hold although no command stores it
SettingsRecords ==
    [default_provider : ProviderTypes,
     custom_prompt : {EmptyStr, <<"be", " ", "brief">>},
     response_timeout_ms : {0, MinTimeoutMs, DefaultTimeoutMs},
     sessions : SessionMaps,
     byok : ByokMaps]

\* a record as the data model has it: the timeouts are not negative and the
\* response timeout is positive
WellFormed(s) ==
    /\ s.response_timeout_ms > 0
    /\ \A p \in DOMAIN s.byok : s.byok[p].timeout_ms >= 0

\* a settings file edited by hand: what it held, and what is wrong with it
EditedFiles ==
    { [SaveSettings([DefaultSettings EXCEPT !.custom_prompt = <<"be", " ", "brief">>,
                                            !.default_provider = "Claude"])
          EXCEPT !.bad = b] : b \in {"syntax", "response_timeout_ms"} }

InitSettings ==
    /\ file \in {NoFile, SaveSettings(DefaultSettings)} \cup EditedFiles
    /\ store = [loaded |-> FALSE, sessions |-> EmptyMap]
    /\ session = InitSession
    /\ agent = NullAgent
    /\ target = EmptyStr
    /\ pc = "idle"
    /\ ask = NoAsk
    /\ tool = NoTool
    /\ ncmd = 0
    /\ call = NoCall
    /\ last = NoLast

SaveSettingsCall ==
    \E s \in SettingsRecords :
      /\ file' = SaveSettings(s)
      /\ call' = [op |-> "SaveSettings", args |-> <<s>>, result |-> EmptyStr]
      /\ UNCHANGED <<store, session, agent, target, pc, ask, tool, ncmd, last>>

LoadSettingsCall ==
    /\ file' = LoadSettings(file).file
    /\ call' = [op |-> "LoadSettings", args |-> <<file>>,
                result |-> LoadSettings(file).settings]
    /\ UNCHANGED <<store, session, agent, target, pc, ask, tool, ncmd, last>>

\* the file is removed, or edited by hand so that it no longer parses
EditFile ==
    \E f \in {NoFile} \cup EditedFiles :
      /\ file' = f
      /\ call' = [op |-> "edit", args |-> <<file>>, result |-> EmptyStr]
      /\ UNCHANGED <<store, session, agent, target, pc, ask, tool, ncmd, last>>

NextSettings ==
    \/ SaveSettingsCall
    \/ LoadSettingsCall
    \/ EditFile

SpecSettings == InitSettings /\ [][NextSettings]_vars

(* ------------------------------------------------------------------ *)
(* Properties                                                          *)
(* ------------------------------------------------------------------ *)
\* the settings as LoadSettings reads them back after the step
PersistedNext == LoadSettings(file').settings

\* a step in which an agent command runs
AgentStep == ncmd' = ncmd + 1 /\ last'.cmd = "agent"

\* C1: a provider switch issued while an agent is live releases that agent
\* before the command returns, and the next copilot command that gets an
\* agent reports created = TRUE, the agent being a new one of the provider
\* switched to.
C1_ProviderSwitchRebuilds ==
    /\ (last.cmd = "agent" /\ last.note = "provider-switched" /\ last.live # 0)
          => /\ last.ok
             /\ last.shut = last.live
             /\ session.agent = 0
             /\ ~session.initialized
             /\ agent = NullAgent
    /\ (pc = "query" /\ ask.torn = "provider")
          => /\ ask.created
             /\ session.agent = ncmd
             /\ agent.id = ncmd
             /\ agent.provider = Persisted.default_provider
             /\ session.provider = Persisted.default_provider

C1_Witness ==
    /\ pc = "query"
    /\ ask.torn = "provider"
    /\ ask.created
    /\ agent.provider = "Claude"

\* C2: every BYOK mutation that succeeds leaves the session without a live
\* agent, whatever was there before, and the next copilot command that gets
\* an agent reports created = TRUE.
C2_ByokMutationRebuilds ==
    /\ (last.cmd = "agent" /\ last.note \in ByokNotes)
          => /\ last.ok
             /\ session.agent = 0
             /\ ~session.initialized
             /\ agent = NullAgent
             /\ (last.live # 0 => last.shut = last.live)
    /\ (pc = "query" /\ ask.torn \in {"byok", "byok-idle"})
          => /\ ask.created
             /\ session.agent = ncmd
             /\ agent.id = ncmd

C2_Witness ==
    /\ pc = "query"
    /\ ask.torn = "byok"
    /\ ask.created
    /\ Persisted.byok # EmptyMap

\* C3 as stated: of two consecutive copilot commands on the same target
\* with no agent command between them, the first one's query having
\* returned, the first sent the system prompt, the separator and the
\* question, and the second sends the question alone.
C3_Original ==
    (pc = "query" /\ ask.follows # "no")
        => /\ ask.follows = "full"
           /\ ask.msg = ask.question

\* C3, amended: a copilot command that finds the session unprimed sends the
\* system prompt, the separator and the question, and a newly built agent
\* is always unprimed; once a query has returned the session is primed; of
\* two consecutive copilot commands on the same target with no agent
\* command between them, the second sends the question alone, and so did
\* the first when it found the session already primed.
C3_PrimingOnce ==
    /\ (pc = "query" /\ ask.created) => ~session.primed
    /\ (pc = "query" /\ ~session.primed)
          => /\ session.system_prompt = GetFullSystemPrompt(ask.settings.custom_prompt)
             /\ ask.msg = session.system_prompt \o PromptSeparator \o ask.question
             /\ last.full
    /\ (pc = "query" /\ session.primed)
          => /\ ask.msg = ask.question
             /\ ~last.full
    /\ (pc = "idle" /\ last.cmd = "copilot" /\ last.note = "answered")
          => session.primed
    /\ (pc = "query" /\ ask.follows # "no")
          => /\ ~ask.created
             /\ session.primed
             /\ ask.msg = ask.question

C3_Witness ==
    /\ pc = "query"
    /\ ask.follows = "full"
    /\ session.primed
    /\ ask.msg = <<"why", " ", "crash">>

\* a copilot command gets its agent and starts its query in this step
AskStarts == pc = "idle" /\ pc' = "query"

\* C4: with BYOK not usable and a live agent whose conversation on target A
\* is the persisted one (id s1), a copilot command on another target B that
\* has no persisted id, the provider unchanged, clears the agent's
\* conversation, leaves the agent without a session id for the query,
\* keeps the same agent (created = FALSE) and leaves A's persisted entry
\* equal to s1, as does the end of that command's query.
C4_TargetChangeClears ==
    [][ /\ ( /\ AskStarts
             /\ session.agent # 0
             /\ session.provider = Persisted.default_provider
             /\ ~byok_usable(Persisted)
             /\ session.target # EmptyStr
             /\ target # session.target
             /\ session.session_id # EmptyStr
             /\ PersistedId(Persisted, session.target, session.provider_name)
                    = session.session_id
             /\ PersistedId(Persisted, target, session.provider_name) = EmptyStr )
            => /\ ask'.cleared
               /\ agent'.sid = EmptyStr
               /\ session'.session_id = EmptyStr
               /\ ~ask'.created
               /\ session'.agent = session.agent
               /\ agent'.id = agent.id
               /\ PersistedId(PersistedNext, session.target, session.provider_name)
                      = session.session_id
        /\ ( /\ pc = "query"
             /\ pc' = "idle"
             /\ ask.cleared
             /\ ask.prev.target \notin {EmptyStr, ask.target} )
            => PersistedId(PersistedNext, ask.prev.target, session.provider_name)
                   = PersistedId(Persisted, ask.prev.target, session.provider_name)
      ]_vars

C4_Witness ==
    /\ pc = "query"
    /\ ask.cleared
    /\ ~ask.created
    /\ ask.prev.target = <<"A">>
    /\ ask.prev.sid = <<"s1">>
    /\ ask.target = <<"B">>
    /\ agent.sid = EmptyStr
    /\ PersistedId(Persisted, <<"A">>, session.provider_name) = <<"s1">>
    /\ PersistedId(Persisted, <<"B">>, session.provider_name) = EmptyStr

\* C5: when an agent clear command returns, the sessions read back from the
\* settings file have no entry for the selected target and the default
\* provider, whether or not an agent was live.
C5_ClearForgetsSession ==
    [][ (AgentStep /\ last'.line = << <<"clear">> >>)
            => /\ last'.ok
               /\ MakeKey(target, provider_type_name(PersistedNext.default_provider))
                      \notin DOMAIN PersistedNext.sessions
      ]_vars

C5_Witness ==
    /\ last.cmd = "agent"
    /\ last.line = << <<"clear">> >>
    /\ last.had = <<"s1">>
    /\ last.live # 0
    /\ target = <<"A">>
    /\ CurrentId = EmptyStr

\* C6: the session holds either no agent, initialized being FALSE, or an
\* agent whose initialize() succeeded, initialized being TRUE; a copilot
\* command whose agent could not be created or initialized fails with an
\* error message and leaves no agent.
C6_NoHalfBuiltAgent ==
    /\ \/ /\ session.agent = 0
          /\ ~session.initialized
          /\ agent = NullAgent
       \/ /\ session.agent # 0
          /\ session.initialized
          /\ agent.id = session.agent
          /\ agent.initialized
    /\ (last.cmd = "copilot" /\ last.note = "ensure-failed")
          => /\ ~last.ok
             /\ last.err # EmptyStr
             /\ session.agent = 0

C6_Witness ==
    /\ last.cmd = "copilot"
    /\ last.note = "ensure-failed"
    /\ last.shut # 0
    /\ last.err = <<"Failed to initialize ", "copilot", " provider", ": ", "no token">>

\* C7: when query_hosted throws, the copilot command fails with an error
\* and the session (its agent, provider, target, session id, system prompt
\* and primed flag among its fields) and the persisted sessions are what
\* they were when the query started; a copilot command that comes next
\* keeps that agent (created = FALSE).
C7_QueryExceptionKeepsSession ==
    [][ /\ (pc = "query" /\ pc' = "idle" /\ last'.note = "exception")
            => /\ ~last'.ok
               /\ last'.err # EmptyStr
               /\ session' = session
               /\ agent' = agent
               /\ PersistedNext.sessions = Persisted.sessions
        /\ (AskStarts /\ last.cmd = "copilot" /\ last.note = "exception")
            => /\ ~ask'.created
               /\ session'.agent = session.agent
               /\ agent'.id = agent.id
      ]_vars

C7_Witness ==
    /\ pc = "idle"
    /\ last.cmd = "copilot"
    /\ last.note = "exception"
    /\ ~last.ok
    /\ session.agent # 0
    /\ ~session.primed

\* C8: a call of the debugger tool made while aborted is TRUE returns
\* "(Aborted)" and does not run the debugger command.
C8_AbortedToolCall ==
    [][ (pc = "query" /\ session.aborted /\ tool'.n = tool.n + 1 /\ tool'.poll = "none")
            => /\ tool'.result = <<"(Aborted)">>
               /\ ~tool'.ran
      ]_vars

C8_Witness ==
    /\ pc = "query"
    /\ session.aborted
    /\ tool.n > 0
    /\ tool.poll = "none"
    /\ tool.result = <<"(Aborted)">>
    /\ ~tool.ran

\* the agent command lines that are configuration errors
ConfigErrors ==
    { << <<"provider">>, <<"gpt">> >>,
      << <<"timeout">>, <<"9", "9", "9">> >>,
      << <<"timeout">>, <<"a", "b", "c">> >>,
      << <<"timeout">>, <<"1", "0", "0", "0", "m", "s">> >>,
      << <<"byok">>, <<"key">> >>,
      << <<"frobnicate">> >>,
      << <<"byok">>, <<"rotate">> >> }

\* C9: an agent command that is a configuration error (an unknown provider
\* name, a timeout below 1000 or not a number, byok key without a value, an
\* unknown subcommand or byok subcommand) fails with an error message and
\* changes neither the persisted settings nor the session nor the agent.
C9_ConfigErrorsChangeNothing ==
    [][ (AgentStep /\ last'.line \in ConfigErrors)
            => /\ ~last'.ok
               /\ last'.err # EmptyStr
               /\ session' = session
               /\ agent' = agent
               /\ PersistedNext = Persisted
      ]_vars

\* C10 as stated: an agent timeout command with a value of at least 1000
\* persists that value and applies it to the live agent without releasing
\* it.
C10_Original ==
    (last.cmd = "agent"
        /\ last.line \in { << <<"timeout">>, <<"1", "0", "0", "0">> >>,
                           << <<"timeout">>,
                              <<"9", "9", "9", "9", "9", "9", "9", "9", "9", "9", "9">> >> })
        => /\ last.ok
           /\ session.agent = last.live
           /\ last.shut = 0

\* C10, amended: an agent timeout command with a value from 1000 to the
\* largest int persists that value and applies it to the live agent
\* without releasing it, a larger value being rejected; and whenever a
\* query is running the timeout applied to the agent is the persisted
\* response_timeout_ms when that is positive.
C10_TimeoutApplied ==
    /\ (last.cmd = "agent" /\ last.line = << <<"timeout">>, <<"1", "0", "0", "0">> >>)
          => /\ last.ok
             /\ Persisted.response_timeout_ms = 1000
             /\ session.agent = last.live
             /\ last.shut = 0
             /\ (session.agent # 0 => agent.timeout = 1000)
    /\ (last.cmd = "agent"
        /\ last.line = << <<"timeout">>,
                          <<"9", "9", "9", "9", "9", "9", "9", "9", "9", "9", "9">> >>)
          => ~last.ok
    /\ (pc = "query" /\ Persisted.response_timeout_ms > 0)
          => agent.timeout = Persisted.response_timeout_ms

C10_Witness ==
    /\ pc = "query"
    /\ ncmd = 3
    /\ ~ask.created
    /\ agent.id = 1
    /\ agent.timeout = 1000
    /\ Persisted.response_timeout_ms = 1000

\* C11: byok enable on a record without an API key succeeds with a warning,
\* persists enabled = TRUE and leaves the record not usable; a copilot
\* command run in that state has an agent without BYOK credentials, and an
\* agent it builds resumes the persisted session of its target.
C11_EnableWithoutKey ==
    /\ (last.cmd = "agent" /\ last.line = << <<"byok">>, <<"enable">> >>)
          => /\ last.ok
             /\ has_byok(Persisted)
             /\ get_byok(Persisted).enabled
             /\ last.warn = (get_byok(Persisted).api_key = EmptyStr)
             /\ (get_byok(Persisted).api_key = EmptyStr
                    => /\ ~is_usable(get_byok(Persisted))
                       /\ ~byok_usable(Persisted))
    /\ (pc = "query" /\ has_byok(ask.settings) /\ get_byok(ask.settings).enabled
        /\ get_byok(ask.settings).api_key = EmptyStr)
          => /\ ~agent.byok_set
             /\ agent.byok = to_config(DefaultBYOK)
             /\ (ask.created
                    => /\ agent.sid = PersistedId(Persisted, ask.target,
                                                  session.provider_name)
                       /\ session.session_id = agent.sid)

C11_Witness ==
    /\ pc = "query"
    /\ ask.created
    /\ has_byok(ask.settings)
    /\ get_byok(ask.settings).enabled
    /\ get_byok(ask.settings).api_key = EmptyStr
    /\ ~agent.byok_set
    /\ agent.sid = <<"s1">>

\* a store call made with an empty target or provider
EmptyNamed(c) == c.args[1] = EmptyStr \/ c.args[2] = EmptyStr

\* a key made of a non-empty target and a non-empty provider
WellKeyed(key) ==
    \E t \in Targets \ {EmptyStr}, p \in ProviderNames : key = MakeKey(t, p)

\* C12: GetSessionId with an empty target or provider returns the empty
\* string; SetSessionId and ClearSession with an empty target or provider
\* change neither the in-memory map nor the file; and no call ever leaves a
\* key whose target or provider part is empty, in memory or on disk.
C12_EmptyNamesAreNoOps ==
    [][ /\ (call'.op = "GetSessionId" /\ EmptyNamed(call'))
            => call'.result = EmptyStr
        /\ (call'.op \in {"SetSessionId", "ClearSession"} /\ EmptyNamed(call'))
            => /\ store' = store
               /\ file' = file
        /\ \A key \in DOMAIN store'.sessions : WellKeyed(key)
        /\ \A key \in DOMAIN PersistedNext.sessions : WellKeyed(key)
      ]_vars

C12_Witness ==
    /\ call.op = "SetSessionId"
    /\ call.args = <<EmptyStr, <<"copilot">>, <<"s2">> >>
    /\ store.sessions = MakeKey(<<"A">>, <<"copilot">>) :> <<"s1">>
    /\ Persisted.sessions = store.sessions

\* the (target, provider) pairs other than (t, p)
OtherPairs(t, p) == ((Targets \ {EmptyStr}) \X ProviderNames) \ {<<t, p>>}

\* C13: for a non-empty target t and provider p, after SetSessionId(t, p,
\* id) GetSessionId(t, p) is id and after ClearSession(t, p) it is empty;
\* either call leaves the id of every other pair as it was, and the
\* sessions read back from the file equal the in-memory map.
C13_SetGetClear ==
    [][ (call'.op \in {"SetSessionId", "ClearSession"} /\ ~EmptyNamed(call'))
            => /\ GetSessionId(store', call'.args[1], call'.args[2])
                    = IF call'.op = "SetSessionId" THEN call'.args[3] ELSE EmptyStr
               /\ (call'.op = "ClearSession"
                      => MakeKey(call'.args[1], call'.args[2])
                             \notin DOMAIN store'.sessions)
               /\ \A o \in OtherPairs(call'.args[1], call'.args[2]) :
                      /\ GetSessionId(store', o[1], o[2]) = GetSessionId(store, o[1], o[2])
                      /\ (MakeKey(o[1], o[2]) \in DOMAIN store'.sessions)
                             = (MakeKey(o[1], o[2]) \in DOMAIN store.sessions)
               /\ PersistedNext.sessions = store'.sessions
      ]_vars

C13_Witness ==
    /\ call.op = "ClearSession"
    /\ call.args = << <<"A">>, <<"copilot">> >>
    /\ store.sessions = MakeKey(<<"B">>, <<"copilot">>) :> <<"s2">>
    /\ Persisted.sessions = store.sessions

\* C14: SaveSettings(s) followed by LoadSettings() returns s, for every
\* well-formed record s: the same default_provider, custom_prompt,
\* response_timeout_ms, sessions entries and fields of every BYOK record
\* (an empty string or map and an absent one being one value of a record).
C14_SaveLoadRoundTrip ==
    [][ (call.op = "SaveSettings" /\ call'.op = "LoadSettings"
         /\ WellFormed(call.args[1]))
            => /\ call'.result = call.args[1]
               /\ file' = file
      ]_vars

C14_Witness ==
    /\ call.op = "LoadSettings"
    /\ call.result.default_provider = "Claude"
    /\ call.result.custom_prompt = <<"be", " ", "brief">>
    /\ call.result.response_timeout_ms = MinTimeoutMs
    /\ DOMAIN call.result.sessions # {}
    /\ <<"copilot">> \in DOMAIN call.result.byok
    /\ call.result.byok[<<"copilot">>].model = <<"m1">>
    /\ call.result.byok[<<"copilot">>].timeout_ms = 5000

\* C15 as stated: LoadSettings on a file that is absent or does not parse
\* returns the defaults and writes them to the file.
C15_Original ==
    [][ (call'.op = "LoadSettings" /\ (~file.exists \/ file.bad = "syntax"))
            => /\ call'.result = DefaultSettings
               /\ file' = SaveSettings(DefaultSettings)
      ]_vars

\* C15, amended: LoadSettings on an absent file returns the defaults and
\* writes them to the file; on a file that does not parse it returns the
\* defaults and leaves the file as it is; on a file with a value of the
\* wrong type it returns what it read before that value, the defaults for
\* the rest, and leaves the file as it is.
C15_LoadDefaults ==
    [][ call'.op = "LoadSettings"
            => /\ ~file.exists
                    => /\ call'.result = DefaultSettings
                       /\ file' = SaveSettings(DefaultSettings)
               /\ file.exists => file' = file
               /\ (file.exists /\ file.bad = "syntax")
                    => call'.result = DefaultSettings
               /\ (file.exists /\ file.bad = "response_timeout_ms")
                    => call'.result =
                         [DefaultSettings EXCEPT
                            !.default_provider =
                                SettingsFromJson(file.json).default_provider,
                            !.custom_prompt =
                                SettingsFromJson(file.json).custom_prompt]
      ]_vars

C15_Witness ==
    /\ call.op = "LoadSettings"
    /\ call.args[1].exists
    /\ call.args[1].bad = "syntax"
    /\ call.result = DefaultSettings
    /\ file = call.args[1]

\* C16: a copilot command with an empty question fails with the usage
\* text; it does not load the settings (an absent file stays absent), it
\* starts no query, and it leaves the session, the agent, the session
\* store and the settings file as they were.
C16_EmptyQuestionIsUsageError ==
    [][ (ncmd' = ncmd + 1 /\ last'.cmd = "copilot" /\ last'.line = << >>)
            => /\ ~last'.ok
               /\ last'.err = UsageError
               /\ pc' = "idle"
               /\ file' = file
               /\ store' = store
               /\ session' = session
               /\ agent' = agent
      ]_vars

C16_Witness ==
    /\ last.cmd = "copilot"
    /\ last.line = << >>
    /\ ~last.ok
    /\ ~file.exists
    /\ ~store.loaded

\* a query returns in this step
QueryReturns == pc = "query" /\ pc' = "idle" /\ last'.note = "answered"

\* C17: with BYOK not usable, when the query of a copilot command on a
\* non-empty target returns and the agent then reports a non-empty session
\* id, that id is the persisted one of (target, provider) and the session's
\* session_id, also when it is the id the session already had.
C17_ReportedIdPersisted ==
    [][ (QueryReturns /\ ~byok_usable(ask.settings) /\ ask.target # EmptyStr
         /\ agent'.sid # EmptyStr)
            => /\ PersistedId(PersistedNext, ask.target,
                              provider_type_name(ask.settings.default_provider))
                      = agent'.sid
               /\ GetSessionId(store', ask.target,
                               provider_type_name(ask.settings.default_provider))
                      = agent'.sid
               /\ session'.session_id = agent'.sid
      ]_vars

C17_Witness ==
    /\ pc = "idle"
    /\ last.cmd = "copilot"
    /\ last.note = "answered"
    /\ ~last.created
    /\ last.had = <<"s1">>
    /\ target = <<"A">>
    /\ agent.sid = <<"s1">>
    /\ session.session_id = <<"s1">>
    /\ CurrentId = <<"s1">>

\* a step of a copilot command: it starts, or its query ends
CopilotStep == last'.cmd = "copilot" /\ (ncmd' = ncmd + 1 \/ pc = "query")

\* C18: while the BYOK record of the default provider is usable the
\* session's session_id is empty; a copilot command that gets its agent
\* then applies no session id to it (an agent built has none, an agent
\* reused keeps what it holds, the conversation is not cleared); and no
\* step of a copilot command changes the persisted sessions.
C18_ByokNeverResumes ==
    [][ /\ byok_usable(PersistedNext) => session'.session_id = EmptyStr
        /\ (AskStarts /\ byok_usable(Persisted))
            => /\ agent'.byok_set
               /\ ~ask'.cleared
               /\ agent'.sid = IF ask'.created THEN EmptyStr ELSE agent.sid
        /\ (CopilotStep /\ byok_usable(Persisted))
            => /\ PersistedNext.sessions = Persisted.sessions
               /\ (store.loaded => store'.sessions = store.sessions)
      ]_vars

C18_Witness ==
    /\ pc = "query"
    /\ byok_usable(ask.settings)
    /\ ask.created
    /\ ask.target = <<"A">>
    /\ PersistedId(Persisted, <<"A">>, session.provider_name) = <<"s1">>
    /\ agent.sid = EmptyStr
    /\ session.session_id = EmptyStr

PromptNotes == {"prompt-set", "prompt-clear"}

\* the custom prompt an agent command line `prompt <text>` / `prompt clear`
\* asks for
NewPrompt(command) == IF Rest(command) = <<"clear">> THEN EmptyStr ELSE Rest(command)

\* C19: an agent command `prompt <text>` or `prompt clear` issued while an
\* agent is live persists the new custom prompt and leaves that agent in
\* place, not shut down; and the copilot command that follows it gets the
\* same agent (created = FALSE) and sends the built-in prompt combined with
\* the new custom prompt, the separator, and the question.
C19_PromptChangeKeepsAgent ==
    [][ /\ (AgentStep /\ last'.note \in PromptNotes /\ session.agent # 0)
            => /\ PersistedNext.custom_prompt = NewPrompt(last'.line)
               /\ session'.agent = session.agent
               /\ agent' = agent
               /\ last'.shut = 0
        /\ (AskStarts /\ last.cmd = "agent" /\ last.note \in PromptNotes
            /\ last.live # 0)
            => /\ ~ask'.created
               /\ session'.agent = last.live
               /\ agent'.id = last.live
               /\ agent'.initialized
               /\ ask'.msg = GetFullSystemPrompt(NewPrompt(last.line))
                                \o PromptSeparator \o ask'.question
      ]_vars

C19_Witness ==
    /\ pc = "query"
    /\ ~ask.created
    /\ ask.after = "prompt-set"
    /\ DefaultSettings.custom_prompt = EmptyStr
    /\ ask.settings.custom_prompt = <<"be", " ", "brief">>
    /\ ask.msg = kSystemPrompt \o <<"\n\n">> \o <<"be", " ", "brief">>
                    \o PromptSeparator \o <<"why", " ", "crash">>

\* the newline the tool's text has between the two streams
Between(out, err) == IF out # EmptyStr /\ err # EmptyStr THEN <<"\n">> ELSE EmptyStr

\* C20: whenever the tool ran a debugger command, the text it returned is
\* not empty; it is "(No output)" exactly when the command wrote nothing
\* to the output stream and nothing to the error stream; otherwise it is
\* the output followed by the error output, with one newline between them
\* exactly when both are non-empty.
C20_ExecuteCommandText ==
    tool.ran
        => /\ tool.result # EmptyStr
           /\ (tool.result = <<"(No output)">>)
                  <=> (tool.out = EmptyStr /\ tool.err = EmptyStr)
           /\ (tool.out # EmptyStr \/ tool.err # EmptyStr)
                  => tool.result = tool.out \o Between(tool.out, tool.err) \o tool.err

C20_Witness ==
    /\ pc = "query"
    /\ tool.ran
    /\ tool.out = <<"frame #0">>
    /\ tool.err = <<"error: invalid">>
    /\ tool.result = <<"frame #0", "\n", "error: invalid">>

\* the copilot command calls query_hosted
QueryIssued == pc = "ensured" /\ pc' = "query"

\* C21: in a host that dispatches commands concurrently, a query issued
\* directly after its own EnsureAgent (no command in between) is issued on
\* a live, initialized agent; a query issued after an agent command that
\* ran with the agent live between EnsureAgent and the query and switched
\* the provider or changed the BYOK record is issued although the session
\* holds no agent, that command having shut the agent down.
C21_TeardownBeforeQuery ==
    [][ QueryIssued
          => /\ last.cmd = "copilot"
                  => /\ session.agent # 0
                     /\ session.initialized
                     /\ agent.id = session.agent
                     /\ agent.initialized
             /\ (last.cmd = "agent" /\ last.live # 0
                 /\ last.note \in ByokNotes \cup {"provider-switched"})
                  => /\ last.shut = last.live
                     /\ session'.agent = 0
                     /\ agent' = NullAgent
                     /\ ~session'.initialized
      ]_vars

C21_Witness ==
    /\ pc = "query"
    /\ session.agent = 0
    /\ last.cmd = "copilot"
    /\ last.live = 0
    /\ ask.question # EmptyStr

\* what holds of the result e of EnsureAgent(settings, t) when it is true
EnsuredOk(e, settings, t) ==
    e.ok => /\ e.w.session.agent # 0
            /\ e.w.agent.id = e.w.session.agent
            /\ e.w.agent.initialized
            /\ e.w.session.initialized
            /\ e.w.session.provider = settings.default_provider
            /\ e.w.agent.provider = settings.default_provider
            /\ e.w.session.target = t
            /\ e.w.session.system_prompt = GetFullSystemPrompt(settings.custom_prompt)
            /\ ~e.w.session.aborted

\* C22: in every state between commands, whatever the aborted flag was left
\* at, for the settings a command loads there, the target selected and
\* every behaviour of the agent library: when EnsureAgent returns true the
\* session holds a live initialized agent of settings.default_provider,
\* session.target is the target asked for, session.system_prompt is the
\* full prompt of settings.custom_prompt, and aborted is false.
C22_EnsureAgentPostcondition ==
    pc = "idle"
        => \A ab \in BOOLEAN, env \in BuildEnvs :
             EnsuredOk(EnsureAgent([Loaded EXCEPT !.session.aborted = ab],
                                   LoadedSettings, target,
                                   [createOk |-> env.createOk, initOk |-> env.initOk,
                                    detail |-> env.detail, id |-> ncmd + 1]),
                       LoadedSettings, target)

C22_Witness ==
    /\ pc = "query"
    /\ ~ask.created
    /\ ask.after = "prompt-set"
    /\ ask.prev.target # ask.target
    /\ session.agent # 0
    /\ agent.id = session.agent
    /\ session.initialized
    /\ session.provider = ask.settings.default_provider
    /\ session.target = ask.target
    /\ session.system_prompt = GetFullSystemPrompt(<<"be", " ", "brief">>)
    /\ ~session.aborted

\* C23: a copilot command whose EnsureAgent succeeded reports created = TRUE
\* exactly when the session's agent object is a new one, and exactly when
\* on entry the session held no agent or an agent of a provider other than
\* settings.default_provider; otherwise the agent object is the one held
\* before. A failed EnsureAgent reports created = FALSE and leaves no agent
\* it built. An agent command that sets or clears the custom prompt or sets
\* the timeout with an agent live, and a change of the selected target,
\* leave the agent object in place.
C23_CreatedIffBuilt ==
    [][ /\ AskStarts
            => /\ ask'.created <=> (agent'.id # agent.id)
               /\ ask'.created <=> (\/ session.agent = 0
                                    \/ session.provider # ask'.settings.default_provider)
               /\ ~ask'.created => /\ session'.agent = session.agent
                                   /\ agent'.id = session.agent
        /\ (ncmd' = ncmd + 1 /\ last'.note = "ensure-failed")
            => /\ ~last'.created
               /\ session'.agent = 0
               /\ agent' = NullAgent
        /\ (AgentStep /\ session.agent # 0
            /\ last'.note \in PromptNotes \cup {"timeout-set"})
            => /\ session'.agent = session.agent
               /\ agent'.id = agent.id
        /\ target' # target => (session' = session /\ agent' = agent)
      ]_vars

C23_Witness ==
    /\ pc = "query"
    /\ ~ask.created
    /\ ask.after = "timeout-set"
    /\ ask.prev.target = <<"A">>
    /\ ask.target = <<"B">>
    /\ agent.id = 1
    /\ session.agent = 1
    /\ agent.timeout = MinTimeoutMs

\* a call of the dbg_exec tool / a poll of should_abort
ToolStep == pc = "query" /\ tool'.n = tool.n + 1 /\ tool'.poll = "none"

PollStep == pc = "query" /\ tool'.n = tool.n + 1 /\ tool'.poll # "none"

\* C24: every copilot command whose EnsureAgent succeeded starts its query
\* with aborted false, whatever the flag was before; and a tool call of
\* that query returns "(Aborted)" only if the flag was set again since that
\* EnsureAgent.
C24_AbortedClearedPerQuestion ==
    [][ /\ AskStarts => (~session'.aborted /\ ~ask'.raised)
        /\ (ToolStep /\ tool'.result = <<"(Aborted)">>) => ask.raised
        /\ (ToolStep /\ ~ask.raised) => (tool'.running /\ ~session.aborted)
      ]_vars

C24_Witness ==
    /\ pc = "query"
    /\ ask.prev.aborted
    /\ ~ask.raised
    /\ ~session.aborted
    /\ tool.ran
    /\ tool.result = <<"frame #0">>

\* C25: once aborted is set it stays set in every step other than the start
\* of the next question's query; while it is set, every tool call returns
\* "(Aborted)" without running a debugger command and every poll of
\* should_abort returns true; setting the flag while a debugger command is
\* under way leaves the command running, and a command under way ends by
\* returning its output.
C25_AbortedSticky ==
    [][ /\ (session.aborted /\ ~AskStarts) => session'.aborted
        /\ (ToolStep /\ session.aborted)
            => /\ tool'.result = <<"(Aborted)">>
               /\ ~tool'.running
               /\ ~tool'.ran
        /\ (PollStep /\ session.aborted) => tool'.poll = "yes"
        /\ (tool.running /\ ~session.aborted /\ session'.aborted)
            => (tool' = tool /\ pc' = "query")
        /\ (tool.running /\ tool' # tool)
            => /\ tool'.ran
               /\ tool'.n = tool.n
               /\ tool'.result = ExecuteCommand(tool.out, tool.err)
      ]_vars

C25_Witness ==
    /\ pc = "query"
    /\ tool.running
    /\ tool.out = <<"frame #0">>
    /\ session.aborted
    /\ ask.raised

\* C26: the first question sent after a new conversation began -- by the
\* copilot command that built the agent, by the copilot command that
\* cleared or switched the conversation on a target change, or by the
\* copilot command that follows an agent command `clear` which cleared the
\* live agent's conversation -- is the full system prompt, the separator
\* and the question.
C26_FirstQuestionCarriesPrompt ==
    [][ (AskStarts /\ (\/ ask'.created
                       \/ ask'.cleared
                       \/ (last.cmd = "agent" /\ last.note = "clear" /\ last.cleared)))
            => ask'.msg = GetFullSystemPrompt(ask'.settings.custom_prompt)
                             \o PromptSeparator \o ask'.question
      ]_vars

\* a copilot command starts its query on an agent it did not build, the
\* selected target differing from the session's, BYOK not usable
TargetChanged ==
    AskStarts /\ ~ask'.created /\ session.target # target
              /\ ~byok_usable(ask'.settings)

\* C27: with BYOK not usable, a copilot command on a target other than the
\* session's, run on the agent the session already holds, keeps that agent
\* and leaves as the session id applied the persisted id of (new target,
\* provider), none when there is no entry; when that id differs from the
\* one applied before, the agent's conversation is cleared and the agent
\* is given that id before the query, and when it is the same nothing is
\* cleared or applied.
C27_TargetChangeAppliesPersisted ==
    [][ TargetChanged
          => /\ session'.agent = session.agent
             /\ agent'.id = agent.id
             /\ session'.target = target
             /\ session'.session_id
                   = PersistedId(Persisted, target, session.provider_name)
             /\ session'.session_id
                   = GetSessionId(store', target, session.provider_name)
             /\ IF session'.session_id # session.session_id
                THEN ask'.cleared /\ agent'.sid = session'.session_id
                ELSE ~ask'.cleared /\ agent'.sid = agent.sid
      ]_vars

C27_Witness ==
    /\ pc = "query"
    /\ ~ask.created
    /\ agent.id = 1
    /\ ask.target = <<"A">>
    /\ ask.prev.target = <<"B">>
    /\ ask.prev.sid = <<"s2">>
    /\ PersistedId(Persisted, <<"B">>, <<"copilot">>) = <<"s2">>
    /\ PersistedId(Persisted, <<"A">>, <<"copilot">>) = <<"s1">>
    /\ ask.cleared
    /\ agent.sid = <<"s1">>
    /\ session.session_id = <<"s1">>

\* C28: with BYOK not usable, a copilot command that builds an agent gives
\* it, before initialize(), the id persisted for (target, provider of the
\* settings) and no other provider's; the end of a query leaves the
\* persisted id of every other (target, provider) pair as it was; and
\* neither the start of a copilot command nor a provider switch changes
\* the persisted sessions.
C28_SessionsPerProvider ==
    [][ /\ (AskStarts /\ ask'.created /\ ~byok_usable(ask'.settings))
            => /\ agent'.provider = ask'.settings.default_provider
               /\ agent'.sid = PersistedId(Persisted, target,
                                   provider_type_name(ask'.settings.default_provider))
               /\ session'.session_id = agent'.sid
        /\ QueryReturns
            => \A tp \in OtherPairs(ask.target,
                                    provider_type_name(ask.settings.default_provider)) :
                 PersistedId(PersistedNext, tp[1], tp[2])
                    = PersistedId(Persisted, tp[1], tp[2])
        /\ (ncmd' = ncmd + 1
            /\ (last'.cmd = "copilot" \/ last'.note = "provider-switched"))
            => PersistedNext.sessions = Persisted.sessions
      ]_vars

C28_Witness ==
    /\ pc = "query"
    /\ ask.created
    /\ ask.after = "provider-switched"
    /\ ask.target = <<"A">>
    /\ ask.settings.default_provider = "Copilot"
    /\ agent.provider = "Copilot"
    /\ agent.id = 3
    /\ agent.sid = <<"s1">>
    /\ session.session_id = <<"s1">>
    /\ PersistedId(Persisted, <<"A">>, <<"claude">>) = <<"s2">>
    /\ PersistedId(Persisted, <<"A">>, <<"copilot">>) = <<"s1">>

\* C29: with BYOK not usable, a copilot command on a target other than the
\* session's, reusing the agent to which the previous copilot command sent
\* its question (a query that returned or threw, no command in between),
\* clears or replaces the agent's conversation before its query.
C29_TargetChangeResetsConversation ==
    [][ (TargetChanged /\ last.cmd = "copilot"
                       /\ last.note \in {"answered", "exception"})
            => ask'.cleared
      ]_vars

\* the transient fields other than provider_name are cleared
TransientCleared(s) ==
    /\ s.session_id = EmptyStr
    /\ s.system_prompt = EmptyStr
    /\ s.target = EmptyStr
    /\ ~s.primed
    /\ ~s.initialized

C31_SessionIdMirrorsPersisted ==
    (/\ pc = "idle"
     /\ ~byok_usable(Persisted)
     /\ session.agent # 0
     /\ session.target # EmptyStr
     /\ session.session_id # EmptyStr)
        => /\ MakeKey(session.target, session.provider_name)
                  \in DOMAIN Persisted.sessions
           /\ Persisted.sessions[MakeKey(session.target, session.provider_name)]
                  = session.session_id

\* an answered question whose query reported an id other than the one
\* persisted for the target before
C31_Witness ==
    /\ pc = "idle" /\ last.cmd = "copilot" /\ last.note = "answered"
    /\ ~byok_usable(Persisted)
    /\ session.agent # 0
    /\ session.target # EmptyStr
    /\ session.session_id # EmptyStr
    /\ last.had # EmptyStr
    /\ last.had # session.session_id

(* ------------------------------------------------------------------ *)
(* C32: an agent command that saves settings (provider, prompt,        *)
(* timeout, byok) leaves every entry of the persisted sessions map as  *)
(* it was, and a step that may write the session map (a copilot        *)
(* command, the return of its query, `agent clear`) leaves the         *)
(* persisted default_provider, custom_prompt, response_timeout_ms and  *)
(* byok records as they were.                                          *)
(* ------------------------------------------------------------------ *)
\* the branches of the agent command that call SaveSettings
SavingNotes ==
    {"provider-switched", "prompt-set", "prompt-clear", "timeout-set"}
        \cup ByokNotes

\* a step in which an agent command saves settings
SettingsSaved == AgentStep /\ last'.note \in SavingNotes

\* a step of the commands that write the session map
SessionMapStep ==
    \/ last'.cmd = "copilot" /\ (ncmd' = ncmd + 1 \/ (pc = "query" /\ pc' = "idle"))
    \/ AgentStep /\ last'.note = "clear"

C32_PersistedFieldsFramed ==
    [][ /\ SettingsSaved => PersistedNext.sessions = Persisted.sessions
        /\ SessionMapStep =>
              /\ PersistedNext.default_provider = Persisted.default_provider
              /\ PersistedNext.custom_prompt = Persisted.custom_prompt
              /\ PersistedNext.response_timeout_ms = Persisted.response_timeout_ms
              /\ PersistedNext.byok = Persisted.byok
      ]_vars

\* a question answered under a prompt an agent command saved, its query's
\* id written next to the session an earlier run left
C32_Witness ==
    /\ pc = "idle" /\ last.cmd = "copilot" /\ last.note = "answered"
    /\ Persisted.custom_prompt # EmptyStr
    /\ Persisted.default_provider = "Claude"
    /\ CurrentId # EmptyStr /\ CurrentId # last.had
    /\ PersistedId(Persisted, <<"A">>, <<"copilot">>) = <<"s1">>

(* ------------------------------------------------------------------ *)
(* C33: while a query sent by a copilot command runs, the credentials  *)
(* applied to the live agent are those of the settings file: the agent *)
(* was given a BYOK configuration exactly when the record of the       *)
(* default provider is usable, and then with that record's api_key,    *)
(* base_url, model and provider_type.                                  *)
(* ------------------------------------------------------------------ *)
C33_CredentialsMatchSettings ==
    pc = "query" =>
        /\ session.agent # 0 /\ agent.id = session.agent
        /\ agent.provider = Persisted.default_provider
        /\ agent.byok_set <=> byok_usable(Persisted)
        /\ byok_usable(Persisted) =>
              /\ agent.byok.api_key = get_byok(Persisted).api_key
              /\ agent.byok.base_url = get_byok(Persisted).base_url
              /\ agent.byok.model = get_byok(Persisted).model
              /\ agent.byok.provider_type = get_byok(Persisted).provider_type

\* a question asked right after `agent byok model m1` changed a usable
\* record: the agent of the query carries the new model
C33_Witness ==
    /\ pc = "query" /\ ask.after = "byok-model"
    /\ agent.byok_set
    /\ agent.byok.model = <<"m1">>
    /\ agent.byok.api_key # EmptyStr

(* ------------------------------------------------------------------ *)
(* C34: no copilot or agent command deletes a persisted BYOK record;   *)
(* a byok subcommand leaves the records of the providers other than    *)
(* the default one, and the fields of the default provider's record it *)
(* does not name, as they were; `agent byok key` without a value       *)
(* creates no record.                                                  *)
(* ------------------------------------------------------------------ *)
\* the field the byok branch taken names
NamedField(note) ==
    CASE note \in {"byok-enable", "byok-disable"} -> "enabled"
      [] note = "byok-key" -> "api_key"
      [] note = "byok-endpoint" -> "base_url"
      [] note = "byok-model" -> "model"
      [] note = "byok-type" -> "provider_type"

\* a step in which `agent byok ...` runs
ByokStep ==
    /\ AgentStep
    /\ last'.note \in ByokNotes \cup {"byok-show", "byok-unknown", "byok-key-missing"}

\* the persisted record of provider name p, a record not there yet
\* counting as the one get_or_create_byok would insert
RecordOf(settings, p) ==
    IF p \in DOMAIN settings.byok THEN settings.byok[p] ELSE DefaultBYOK

C34_ByokRecordsFramed ==
    [][ LET old == Persisted
            new == PersistedNext
            pn == provider_type_name(old.default_provider)
        IN
        /\ DOMAIN old.byok \subseteq DOMAIN new.byok
        /\ ByokStep =>
              /\ \A p \in DOMAIN new.byok :
                    p # pn => /\ p \in DOMAIN old.byok
                              /\ new.byok[p] = old.byok[p]
              /\ new.default_provider = old.default_provider
              /\ IF last'.note \in ByokNotes
                 THEN /\ has_byok(new)
                      /\ \A f \in DOMAIN DefaultBYOK \ {NamedField(last'.note)} :
                            get_byok(new)[f] = RecordOf(old, pn)[f]
                 ELSE new.byok = old.byok
      ]_vars

\* `agent byok key sk-1` under claude after the copilot record was given
\* a field: both records are there, the copilot one as it was
C34_Witness ==
    /\ last.cmd = "agent" /\ last.note = "byok-key"
    /\ Persisted.default_provider = "Claude"
    /\ DOMAIN Persisted.byok = {<<"copilot">>, <<"claude">>}
    /\ Persisted.byok[<<"copilot">>] # DefaultBYOK
    /\ Persisted.byok[<<"claude">>].api_key = <<"sk-1">>
====
